---------------------------- MODULE Spec2Model ----------------------------
(***************************************************************************)
(* Model of the arbitrage detector of Spectre-Aegis                        *)
(* (src/analytics-modules/arbitrage/arbitrage_detector.py) and of the      *)
(* response cache of its odds collector                                    *)
(* (src/data-pipeline/collectors/odds_collector.py).                       *)
(*                                                                         *)
(* Numbers.  The code computes in Python floats, and so does the model:    *)
(* a number is an IEEE 754 binary64 value, kept as a sign, a 53-bit        *)
(* mantissa and an exponent, and every operation (+, -, *, /, the          *)
(* comparisons, round(x, 2) of Python and of numpy) rounds as the          *)
(* hardware and the two libraries do.  The mantissas exceed the integers   *)
(* of the model checker, so they are kept as sequences of 15-bit limbs.    *)
(*                                                                         *)
(* Python values.  A dict is a TLA+ function on its keys, and dict.get     *)
(* is Get; a list is a sequence; None is the record NoneVal.               *)
(***************************************************************************)
EXTENDS Integers, Sequences, FiniteSets, TLC

VARIABLES
    min_profit_threshold,   \* self.min_profit_threshold
    max_profit_threshold,   \* self.max_profit_threshold
    opportunities_found,    \* self.opportunities_found
    clock,                  \* the wall clock read by datetime.now(), in hours
    op,                     \* the operation that ran last ("init" after __init__)
    arg,                    \* its argument
    ret,                    \* its return value
    scanned,                \* history variable: every scan_game call so far, in order,
                            \* as [game_data |-> its argument, at |-> the clock then]
    api_key,                \* OddsCollector: self.api_key
    cache,                  \* OddsCollector: self.cache, from cache keys to
                            \* [cached_data |-> _, cached_time |-> _]
    wall,                   \* the wall clock read by the collector, in seconds
    threads,                \* OddsCollector: the callers, each outside the collector
                            \* or held up inside it, in requests.get or in a print
    entered,                \* history variable: [calls |-> the calls of the
                            \* collector's methods so far, requests |-> the HTTP
                            \* requests they could send]
    served                  \* history variable: where the last get_odds took its
                            \* data from, and the clock reading of its cache test,
                            \* as [from |-> _, at |-> _], with cached_time |-> the
                            \* time of the cache entry the data was in

vars == <<min_profit_threshold, max_profit_threshold, opportunities_found,
          clock, op, arg, ret, scanned, api_key, cache, wall, threads,
          entered, served>>

\* the state of the detector, and of the collector
detector == <<min_profit_threshold, max_profit_threshold, opportunities_found,
              clock, scanned>>
collector == <<api_key, cache, wall, threads, entered, served>>

---------------------------------------------------------------------------
(* Bounds of the model. *)

\* most entries in a game's bookmakers list (single-call specification)
MaxBookmakers == 2
\* most scan_game calls in one behaviour of the history specification
MaxScans == 2
\* most games handed to the one scan_multiple_games call of the single-call specification
MaxBatch == 3
\* last hour the clock reaches
MaxClock == 1
\* the callers of the collector that can be inside it at once
MaxThreads == 2
\* most calls of the collector's methods in one behaviour
MaxCalls == 2
\* most HTTP requests that the calls of one behaviour can send
MaxRequests == 4

---------------------------------------------------------------------------
(* Natural numbers beyond the range of the model checker's integers:       *)
(* little-endian sequences of limbs in 0 .. Base-1, the last limb nonzero, *)
(* zero being the empty sequence.                                          *)

LimbBits == 15
Base == 32768

RECURSIVE Pow2(_)
Pow2(k) == IF k = 0 THEN 1 ELSE 2 * Pow2(k - 1)

RECURSIVE BitLen(_)
BitLen(n) == IF n = 0 THEN 0 ELSE 1 + BitLen(n \div 2)

RECURSIVE BTrim(_)
BTrim(a) ==
    IF a = <<>> THEN a
    ELSE IF a[Len(a)] # 0 THEN a
    ELSE BTrim(SubSeq(a, 1, Len(a) - 1))

RECURSIVE BFromInt(_)
BFromInt(n) == IF n = 0 THEN <<>> ELSE <<n % Base>> \o BFromInt(n \div Base)

Limb(a, i) == IF i <= Len(a) THEN a[i] ELSE 0

RECURSIVE BAddFrom(_, _, _, _)
BAddFrom(a, b, i, c) ==
    IF i > Len(a) /\ i > Len(b) THEN (IF c = 0 THEN <<>> ELSE <<c>>)
    ELSE <<(Limb(a, i) + Limb(b, i) + c) % Base>>
         \o BAddFrom(a, b, i + 1, (Limb(a, i) + Limb(b, i) + c) \div Base)

BAdd(a, b) == BAddFrom(a, b, 1, 0)

\* a - b for a >= b
RECURSIVE BSubFrom(_, _, _, _)
BSubFrom(a, b, i, c) ==
    IF i > Len(a) THEN <<>>
    ELSE <<(Limb(a, i) - Limb(b, i) - c + Base) % Base>>
         \o BSubFrom(a, b, i + 1, IF Limb(a, i) - Limb(b, i) - c < 0 THEN 1 ELSE 0)

BSub(a, b) == BTrim(BSubFrom(a, b, 1, 0))

RECURSIVE BCmpFrom(_, _, _)
BCmpFrom(a, b, i) ==
    IF i = 0 THEN 0
    ELSE IF a[i] > b[i] THEN 1
    ELSE IF a[i] < b[i] THEN -1
    ELSE BCmpFrom(a, b, i - 1)

\* -1, 0 or 1 as a < b, a = b or a > b
BCmp(a, b) ==
    IF Len(a) > Len(b) THEN 1
    ELSE IF Len(a) < Len(b) THEN -1
    ELSE BCmpFrom(a, b, Len(a))

\* a * s for 0 <= s <= Base
RECURSIVE BMulSmallFrom(_, _, _, _)
BMulSmallFrom(a, s, i, c) ==
    IF i > Len(a) THEN (IF c = 0 THEN <<>> ELSE <<c>>)
    ELSE <<(a[i] * s + c) % Base>>
         \o BMulSmallFrom(a, s, i + 1, (a[i] * s + c) \div Base)

BMulSmall(a, s) == IF s = 0 THEN <<>> ELSE BMulSmallFrom(a, s, 1, 0)

BTimesBase(a) == IF a = <<>> THEN a ELSE <<0>> \o a

RECURSIVE BMulFrom(_, _, _)
BMulFrom(a, b, i) ==
    IF i > Len(b) THEN <<>>
    ELSE BAdd(BMulSmall(a, b[i]), BTimesBase(BMulFrom(a, b, i + 1)))

BMul(a, b) == BMulFrom(a, b, 1)

\* a * 2^k
BShl(a, k) ==
    IF a = <<>> THEN a
    ELSE [i \in 1..(k \div LimbBits) |-> 0] \o BMulSmall(a, Pow2(k % LimbBits))

BQuotRem(rest, digit) == [q |-> rest.q \o <<digit>>, r |-> rest.r]

\* quotient and remainder of the limbs i .. 1 of a by d, 0 < d <= Base,
\* with r < d carried in from the limbs above
RECURSIVE BDivSmallFrom(_, _, _, _)
BDivSmallFrom(a, d, i, r) ==
    IF i = 0 THEN [q |-> <<>>, r |-> r]
    ELSE BQuotRem(BDivSmallFrom(a, d, i - 1, (r * Base + a[i]) % d),
                  (r * Base + a[i]) \div d)

BTrimmed(qr) == [q |-> BTrim(qr.q), r |-> qr.r]

\* [q |-> floor(a / d), r |-> a mod d] for 0 < d <= Base
BDivSmall(a, d) == BTrimmed(BDivSmallFrom(a, d, Len(a), 0))

\* floor(a / 2^k)
BShr(a, k) ==
    IF k \div LimbBits >= Len(a) THEN <<>>
    ELSE BDivSmall(SubSeq(a, k \div LimbBits + 1, Len(a)), Pow2(k % LimbBits)).q

BBits(a) == IF a = <<>> THEN 0 ELSE LimbBits * (Len(a) - 1) + BitLen(a[Len(a)])

BOdd(a) == a # <<>> /\ a[1] % 2 = 1

\* a as an integer of the model checker, for a < 2^31
BToInt(a) == Limb(a, 1) + Base * Limb(a, 2) + Base * Base * Limb(a, 3)

\* the steps of a long division, each finding LimbBits bits of the quotient
DivSteps == 4

RECURSIVE BDigit(_, _, _)
BDigit(rest, digit, b) ==
    IF BCmp(rest, b) >= 0 THEN BDigit(BSub(rest, b), digit + 1, b)
    ELSE [q |-> digit, r |-> rest]

\* floor(r / b) and the remainder, for r < b * Base and b of at least
\* LimbBits bits: a first guess from the leading bits that is never too
\* large, then corrected
BDivDigit(r, b, guess) == BDigit(BSub(r, BMulSmall(b, guess)), guess, b)

BGuess(r, b, shift) == BToInt(BShr(r, shift)) \div (BToInt(BShr(b, shift)) + 1)

\* q * Base + qr.q
BPush(q, qr) ==
    [q |-> IF q = <<>> THEN BFromInt(qr.q) ELSE <<qr.q>> \o q, r |-> qr.r]

BDivNext(r, b, q) == BPush(q, BDivDigit(r, b, BGuess(r, b, BBits(b) - LimbBits)))

\* k more steps of the long division r / b, for r < b:
\* [q |-> quotient, r |-> remainder]
RECURSIVE BDivSteps(_, _, _)
BDivSteps(qr, b, k) ==
    IF k = 0 THEN qr
    ELSE BDivSteps(BDivNext(BTimesBase(qr.r), b, qr.q), b, k - 1)

---------------------------------------------------------------------------
(* Python floats: IEEE 754 binary64, round to nearest, ties to even.       *)
(* A float is [neg |-> sign, m |-> mantissa, e |-> exponent] and stands    *)
(* for (-1)^neg * m * 2^e, with 2^52 <= m < 2^53; zero is FZero.           *)
(* Infinities, NaN, subnormal numbers and the sign of zero are left out.   *)

Precision == 53

FZero == [neg |-> FALSE, m |-> <<>>, e |-> 0]

\* q * 2^e, q of Precision or Precision + 1 bits after a carry
FPack(neg, q, e) ==
    IF BBits(q) > Precision THEN [neg |-> neg, m |-> BShr(q, 1), e |-> e + 1]
    ELSE [neg |-> neg, m |-> q, e |-> e]

\* round to nearest, ties to even: is q + f rounded up to q + 1, where half is
\* -1, 0 or 1 as f < 1/2, f = 1/2 or f > 1/2, and sticky adds a little to f?
FTieUp(q, half, sticky) == half > 0 \/ (half = 0 /\ (sticky \/ BOdd(q)))

\* is q + rem / 2^shift (+ a little when sticky) rounded up to q + 1?
FRoundsUp(q, rem, shift, sticky) ==
    FTieUp(q, BCmp(BAdd(rem, rem), BShl(<<1>>, shift)), sticky)

FRoundTo(neg, M, q, shift, e, sticky) ==
    IF FRoundsUp(q, BSub(M, BShl(q, shift)), shift, sticky)
    THEN FPack(neg, BAddFrom(q, <<>>, 1, 1), e + shift)
    ELSE [neg |-> neg, m |-> q, e |-> e + shift]

\* the float nearest to (-1)^neg * (M + f) * 2^e where 0 < f < 1 when sticky
\* and f = 0 otherwise; a sticky M has more than Precision + 1 bits
FRound(neg, M, e, sticky) ==
    IF M = <<>> THEN FZero
    ELSE IF BBits(M) <= Precision
    THEN [neg |-> neg, m |-> BShl(M, Precision - BBits(M)),
          e |-> e - (Precision - BBits(M))]
    ELSE FRoundTo(neg, M, BShr(M, BBits(M) - Precision), BBits(M) - Precision,
                  e, sticky)

\* float(n) of an integer n
FInt(n) == FRound(n < 0, BFromInt(IF n < 0 THEN -n ELSE n), 0, FALSE)

FNeg(x) == IF x.m = <<>> THEN x ELSE [x EXCEPT !.neg = ~x.neg]
FAbs(x) == [x EXCEPT !.neg = FALSE]

\* -1, 0 or 1 as |x| < |y|, |x| = |y| or |x| > |y|
FCmpAbs(x, y) ==
    IF x.m = <<>> THEN (IF y.m = <<>> THEN 0 ELSE -1)
    ELSE IF y.m = <<>> THEN 1
    ELSE IF x.e > y.e THEN 1
    ELSE IF x.e < y.e THEN -1
    ELSE BCmp(x.m, y.m)

FCmp(x, y) ==
    IF x.neg /\ ~y.neg THEN -1
    ELSE IF ~x.neg /\ y.neg THEN 1
    ELSE IF x.neg THEN FCmpAbs(y, x)
    ELSE FCmpAbs(x, y)

FLt(x, y) == FCmp(x, y) < 0
FLe(x, y) == FCmp(x, y) <= 0
FGt(x, y) == FCmp(x, y) > 0
FGe(x, y) == FCmp(x, y) >= 0

\* how far apart two exponents may lie before the smaller number vanishes
\* in the sum
FarApart == 64

\* X * 2^e + Y * 2^e with the signs of x and y
FSubAligned(x, y, X, Y, e, c) ==
    IF c = 0 THEN FZero
    ELSE IF c > 0 THEN FRound(x.neg, BSub(X, Y), e, FALSE)
    ELSE FRound(y.neg, BSub(Y, X), e, FALSE)

FAddAligned(x, y, X, Y, e) ==
    IF x.neg = y.neg THEN FRound(x.neg, BAdd(X, Y), e, FALSE)
    ELSE FSubAligned(x, y, X, Y, e, BCmp(X, Y))

\* x + y
FAdd(x, y) ==
    IF x.m = <<>> THEN y
    ELSE IF y.m = <<>> THEN x
    ELSE IF x.e - y.e > FarApart THEN x
    ELSE IF y.e - x.e > FarApart THEN y
    ELSE IF x.e >= y.e THEN FAddAligned(x, y, BShl(x.m, x.e - y.e), y.m, y.e)
    ELSE FAddAligned(x, y, x.m, BShl(y.m, y.e - x.e), x.e)

\* x - y
FSub(x, y) == FAdd(x, FNeg(y))

\* x * y
FMul(x, y) ==
    IF x.m = <<>> \/ y.m = <<>> THEN FZero
    ELSE FRound(x.neg # y.neg, BMul(x.m, y.m), x.e + y.e, FALSE)

\* the quotient bits kept by a division, at least two more than Precision
QuotientBits == LimbBits * DivSteps

FDivRound(neg, qr, e) == FRound(neg, qr.q, e, qr.r # <<>>)

\* x / y, y # 0 (the callers establish this as the code does)
FDiv(x, y) ==
    IF x.m = <<>> THEN FZero
    ELSE IF BCmp(x.m, y.m) >= 0
    THEN FDivRound(x.neg # y.neg,
                   BDivSteps([q |-> <<1>>, r |-> BSub(x.m, y.m)], y.m, DivSteps),
                   x.e - y.e - QuotientBits)
    ELSE FDivRound(x.neg # y.neg,
                   BDivSteps([q |-> <<>>, r |-> x.m], y.m, DivSteps),
                   x.e - y.e - QuotientBits)

\* the float literal written n/d in decimal, as 2.15 is F(215, 100)
F(n, d) == FDiv(FInt(n), FInt(d))

Zero == FZero
One == FInt(1)
Hundred == FInt(100)

\* q + rem / 2^shift to the nearest integer, a tie going to the even one
BNearest(q, rem, shift) ==
    IF FRoundsUp(q, rem, shift, FALSE) THEN BAddFrom(q, <<>>, 1, 1) ELSE q

BNearestTo(M, q, shift) == BNearest(q, BSub(M, BShl(q, shift)), shift)

\* M / 2^shift to the nearest integer
BRoundShr(M, shift) == BNearestTo(M, BShr(M, shift), shift)

\* the bits by which a number of hundredths is scaled before it is divided
\* by 100, so that the quotient has more than Precision + 1 bits
HundredthBits == 62

\* the float nearest to N / 100
FHundredthsRound(neg, qr) == FRound(neg, qr.q, -HundredthBits, qr.r # 0)
FHundredths(neg, N) ==
    FHundredthsRound(neg, BDivSmall(BShl(N, HundredthBits), 100))

\* round(x, 2) of a Python float: the decimal value of x rounded to two
\* places, a tie going to the even digit, then the float nearest to that
Round2(x) ==
    IF x.m = <<>> \/ x.e >= 0 THEN x
    ELSE FHundredths(x.neg, BRoundShr(BMulSmall(x.m, 100), -x.e))

\* numpy.rint(x): the nearest integer, a tie going to the even one
FRint(x) ==
    IF x.m = <<>> \/ x.e >= 0 THEN x
    ELSE FRound(x.neg, BRoundShr(x.m, -x.e), 0, FALSE)

\* round(x, 2) of a numpy.float64: rint(x * 100) / 100
NpRound2(x) == FDiv(FRint(FMul(x, Hundred)), Hundred)

---------------------------------------------------------------------------
(* Python values *)

NoneVal == [none |-> TRUE]
IsNone(x) == DOMAIN x = {"none"}

\* dict.get(key, default)
Get(dict, key, default) == IF key \in DOMAIN dict THEN dict[key] ELSE default

---------------------------------------------------------------------------
(* ArbitrageDetector: the pure parts *)

\* the float literals of the detector: 2.0 in _odds_to_probability, 0.05 and
\* 1.1 in _assess_risk, 0.03 in _assess_time_sensitivity
DecimalOdds == FInt(2)
HighProfit == F(5, 100)
ShortOdds == F(11, 10)
UrgentProfit == F(3, 100)

\* _odds_to_probability with the decimal branch taken only above 2.0
odds_to_probability_gt(odds) ==
    IF FGt(odds, DecimalOdds) THEN FDiv(One, odds)
    ELSE IF FGt(odds, Zero) THEN FDiv(Hundred, FAdd(odds, Hundred))
    ELSE FDiv(FAbs(odds), FAdd(FAbs(odds), Hundred))

\* _odds_to_probability(odds)
odds_to_probability(odds) ==
    IF FGe(odds, DecimalOdds) THEN FDiv(One, odds)
    ELSE IF FGt(odds, Zero) THEN FDiv(Hundred, FAdd(odds, Hundred))
    ELSE FDiv(FAbs(odds), FAdd(FAbs(odds), Hundred))

known_bookmakers == {"DraftKings", "FanDuel", "BetMGM", "Caesars", "PointsBet"}

\* _assess_risk with the odds and bookmaker tests placed before the profit test
assess_risk_medium_first(profit_pct, home_odds, away_odds, home_bookmaker, away_bookmaker) ==
    IF FLt(home_odds, ShortOdds) \/ FLt(away_odds, ShortOdds) THEN "medium"
    ELSE IF home_bookmaker \notin known_bookmakers
            \/ away_bookmaker \notin known_bookmakers THEN "medium"
    ELSE IF FGt(profit_pct, HighProfit) THEN "high"
    ELSE "low"

\* _assess_risk(profit_pct, home_odds, away_odds, home_bookmaker, away_bookmaker)
assess_risk(profit_pct, home_odds, away_odds, home_bookmaker, away_bookmaker) ==
    IF FGt(profit_pct, HighProfit) THEN "high"
    ELSE IF FLt(home_odds, ShortOdds) \/ FLt(away_odds, ShortOdds) THEN "medium"
    ELSE IF home_bookmaker \notin known_bookmakers
            \/ away_bookmaker \notin known_bookmakers THEN "medium"
    ELSE "low"

(* A commence_time is [hours |-> h], a timestamp string that pd.to_datetime    *)
(* parses to the instant h hours after the model's epoch, or [text |-> s], a   *)
(* string that is no timestamp: one that pd.to_datetime reads as NaT without   *)
(* raising (the empty string, "NaT", "nan"), or one that it rejects.           *)
Parseable(commence_time) == "hours" \in DOMAIN commence_time

\* the strings pd.to_datetime reads as NaT
nat_strings == {"", "NaT", "nat", "NAT", "nan", "NaN", "NAN"}

\* pd.to_datetime(commence_time) is NaT
IsNaT(commence_time) ==
    /\ "text" \in DOMAIN commence_time
    /\ commence_time.text \in nat_strings

\* lines 263-265 raise: a missing commence_time is None, which pd.to_datetime
\* returns and whose .tz raises; a string that is no date makes pd.to_datetime raise
TimeRaises(commence_time) == ~Parseable(commence_time) /\ ~IsNaT(commence_time)

\* _assess_time_sensitivity with a game two hours away counted as starting soon
assess_time_sensitivity_le(game_data, profit_pct, now) ==
    LET commence_time == Get(game_data, "commence_time", NoneVal)
    IN  IF TimeRaises(commence_time) THEN "moderate"
        ELSE IF FGt(profit_pct, UrgentProfit) THEN "urgent"
        ELSE IF IsNaT(commence_time) THEN "moderate"
        ELSE LET hours_until == commence_time.hours - now
             IN  IF hours_until <= 2 THEN "urgent"
                 ELSE IF hours_until > 48 THEN "stable"
                 ELSE "moderate"

\* _assess_time_sensitivity(game_data, profit_pct), the clock reading `now`.
\* What raises in lines 263-265 lands in the except branch (line 281). Of a NaT
\* the .tz is None and the hours until the game are NaN, without a raise: the
\* profit test of line 268 is made, and both comparisons with NaN (lines 272,
\* 276) are False.
assess_time_sensitivity(game_data, profit_pct, now) ==
    LET commence_time == Get(game_data, "commence_time", NoneVal)
    IN  IF TimeRaises(commence_time) THEN "moderate"
        ELSE IF FGt(profit_pct, UrgentProfit) THEN "urgent"
        ELSE IF IsNaT(commence_time) THEN "moderate"
        ELSE LET hours_until == commence_time.hours - now
             IN  IF hours_until < 2 THEN "urgent"
                 ELSE IF hours_until > 48 THEN "stable"
                 ELSE "moderate"

\* the construction of the opportunity with the implied probabilities themselves
\* as stakes, not divided by their total
new_opportunity_unnormalised(now, game_data, home_odds, home_bookmaker, away_odds, away_bookmaker, home_prob, away_prob, total_prob, profit_pct) ==
    [game_id |-> Get(game_data, "id", ""),
     sport |-> Get(game_data, "sport_title", ""),
     home_team |-> Get(game_data, "home_team", ""),
     away_team |-> Get(game_data, "away_team", ""),
     commence_time |-> Get(game_data, "commence_time", [text |-> ""]),
     best_home_odds |-> home_odds,
     best_home_bookmaker |-> home_bookmaker,
     best_away_odds |-> away_odds,
     best_away_bookmaker |-> away_bookmaker,
     profit_percentage |-> FMul(profit_pct, Hundred),
     stake_home |-> FMul(home_prob, Hundred),
     stake_away |-> FMul(away_prob, Hundred),
     guaranteed_return |-> FMul(profit_pct, Hundred),
     risk_level |-> assess_risk(profit_pct, home_odds, away_odds,
                                home_bookmaker, away_bookmaker),
     time_sensitivity |-> assess_time_sensitivity(game_data, profit_pct, now),
     detected_at |-> now]

\* lines 176-207 of _calculate_arbitrage: the stakes stake_home = home_prob /
\* total_prob and stake_away = away_prob / total_prob, and the
\* ArbitrageOpportunity(...) built from them
new_opportunity(now, game_data, home_odds, home_bookmaker, away_odds, away_bookmaker, home_prob, away_prob, total_prob, profit_pct) ==
    [game_id |-> Get(game_data, "id", ""),
     sport |-> Get(game_data, "sport_title", ""),
     home_team |-> Get(game_data, "home_team", ""),
     away_team |-> Get(game_data, "away_team", ""),
     commence_time |-> Get(game_data, "commence_time", [text |-> ""]),
     best_home_odds |-> home_odds,
     best_home_bookmaker |-> home_bookmaker,
     best_away_odds |-> away_odds,
     best_away_bookmaker |-> away_bookmaker,
     profit_percentage |-> FMul(profit_pct, Hundred),
     stake_home |-> FMul(FDiv(home_prob, total_prob), Hundred),
     stake_away |-> FMul(FDiv(away_prob, total_prob), Hundred),
     guaranteed_return |-> FMul(profit_pct, Hundred),
     risk_level |-> assess_risk(profit_pct, home_odds, away_odds,
                                home_bookmaker, away_bookmaker),
     time_sensitivity |-> assess_time_sensitivity(game_data, profit_pct, now),
     detected_at |-> now]

\* the threshold filter with both thresholds exclusive
filter_profit_excl(self_min, self_max, now, game_data, home_odds, home_bookmaker, away_odds, away_bookmaker, home_prob, away_prob, total_prob, profit_pct) ==
    IF FLe(profit_pct, self_min) THEN NoneVal
    ELSE IF FGe(profit_pct, self_max) THEN NoneVal
    ELSE new_opportunity(now, game_data, home_odds, home_bookmaker, away_odds,
                         away_bookmaker, home_prob, away_prob, total_prob, profit_pct)

\* the threshold filter without the max_profit_threshold test
filter_profit_nomax(self_min, self_max, now, game_data, home_odds, home_bookmaker, away_odds, away_bookmaker, home_prob, away_prob, total_prob, profit_pct) ==
    IF FLt(profit_pct, self_min) THEN NoneVal
    ELSE new_opportunity(now, game_data, home_odds, home_bookmaker, away_odds,
                         away_bookmaker, home_prob, away_prob, total_prob, profit_pct)

\* lines 169-207 of _calculate_arbitrage, profit_pct computed: the filter on the
\* two thresholds, then the opportunity
filter_profit(self_min, self_max, now, game_data, home_odds, home_bookmaker, away_odds, away_bookmaker, home_prob, away_prob, total_prob, profit_pct) ==
    IF FLt(profit_pct, self_min) THEN NoneVal
    ELSE IF FGt(profit_pct, self_max) THEN NoneVal
    ELSE new_opportunity(now, game_data, home_odds, home_bookmaker, away_odds,
                         away_bookmaker, home_prob, away_prob, total_prob, profit_pct)

\* the no-arbitrage test as total_prob > 1.0
check_total_gt(self_min, self_max, now, game_data, home_odds, home_bookmaker, away_odds, away_bookmaker, home_prob, away_prob, total_prob) ==
    IF FGt(total_prob, One) THEN NoneVal
    ELSE filter_profit(self_min, self_max, now, game_data, home_odds, home_bookmaker,
                       away_odds, away_bookmaker, home_prob, away_prob, total_prob,
                       FSub(FDiv(One, total_prob), One))

\* the profit computed without the no-arbitrage test
check_total_unchecked(self_min, self_max, now, game_data, home_odds, home_bookmaker, away_odds, away_bookmaker, home_prob, away_prob, total_prob) ==
    filter_profit(self_min, self_max, now, game_data, home_odds, home_bookmaker,
                  away_odds, away_bookmaker, home_prob, away_prob, total_prob,
                  FSub(FDiv(One, total_prob), One))

\* lines 163-207 of _calculate_arbitrage, total_prob computed: no arbitrage if
\* total_prob >= 1.0, else profit_pct = (1.0 / total_prob) - 1.0
check_total(self_min, self_max, now, game_data, home_odds, home_bookmaker, away_odds, away_bookmaker, home_prob, away_prob, total_prob) ==
    IF FGe(total_prob, One) THEN NoneVal
    ELSE filter_profit(self_min, self_max, now, game_data, home_odds, home_bookmaker,
                       away_odds, away_bookmaker, home_prob, away_prob, total_prob,
                       FSub(FDiv(One, total_prob), One))

\* lines 160-207 of _calculate_arbitrage, the two implied probabilities
\* computed: total_prob = home_prob + away_prob
sum_probabilities(self_min, self_max, now, game_data, home_odds, home_bookmaker, away_odds, away_bookmaker, home_prob, away_prob) ==
    check_total(self_min, self_max, now, game_data, home_odds, home_bookmaker,
                away_odds, away_bookmaker, home_prob, away_prob,
                FAdd(home_prob, away_prob))

\* _calculate_arbitrage(game_data, home_odds, home_bookmaker, away_odds, away_bookmaker)
\* on a detector with thresholds self_min and self_max, the clock reading `now`.
\* Both odds are > 0 at the one call site, so total_prob > 0.
calculate_arbitrage(self_min, self_max, now, game_data, home_odds, home_bookmaker, away_odds, away_bookmaker) ==
    sum_probabilities(self_min, self_max, now, game_data, home_odds, home_bookmaker,
                      away_odds, away_bookmaker,
                      odds_to_probability(home_odds), odds_to_probability(away_odds))

\* the loop over one market's outcomes keeping the last positive price of each
\* side instead of the greatest
RECURSIVE scan_outcomes_last(_, _, _, _, _, _)
scan_outcomes_last(outcomes, k, bookmaker_name, home_team, away_team, best) ==
    IF k > Len(outcomes) THEN best
    ELSE LET odds == Get(outcomes[k], "price", Zero)
             team == Get(outcomes[k], "name", "")
             next == IF team = home_team /\ FGt(odds, Zero)
                     THEN [best EXCEPT !.home = [odds |-> odds,
                                                 bookmaker |-> bookmaker_name]]
                     ELSE IF team = away_team /\ FGt(odds, Zero)
                     THEN [best EXCEPT !.away = [odds |-> odds,
                                                 bookmaker |-> bookmaker_name]]
                     ELSE best
         IN  scan_outcomes_last(outcomes, k + 1, bookmaker_name, home_team, away_team, next)

\* the loop over one market's outcomes replacing the best price by any price at
\* least as great, so that of equal prices the last one seen is kept
RECURSIVE scan_outcomes_ge(_, _, _, _, _, _)
scan_outcomes_ge(outcomes, k, bookmaker_name, home_team, away_team, best) ==
    IF k > Len(outcomes) THEN best
    ELSE LET odds == Get(outcomes[k], "price", Zero)
             team == Get(outcomes[k], "name", "")
             next == IF team = home_team /\ FGe(odds, best.home.odds)
                     THEN [best EXCEPT !.home = [odds |-> odds,
                                                 bookmaker |-> bookmaker_name]]
                     ELSE IF team = away_team /\ FGe(odds, best.away.odds)
                     THEN [best EXCEPT !.away = [odds |-> odds,
                                                 bookmaker |-> bookmaker_name]]
                     ELSE best
         IN  scan_outcomes_ge(outcomes, k + 1, bookmaker_name, home_team, away_team, next)

\* the loop over one market's outcomes comparing the magnitudes of the prices
RECURSIVE scan_outcomes_abs(_, _, _, _, _, _)
scan_outcomes_abs(outcomes, k, bookmaker_name, home_team, away_team, best) ==
    IF k > Len(outcomes) THEN best
    ELSE LET odds == Get(outcomes[k], "price", Zero)
             team == Get(outcomes[k], "name", "")
             next == IF team = home_team /\ FGt(FAbs(odds), FAbs(best.home.odds))
                     THEN [best EXCEPT !.home = [odds |-> odds,
                                                 bookmaker |-> bookmaker_name]]
                     ELSE IF team = away_team /\ FGt(FAbs(odds), FAbs(best.away.odds))
                     THEN [best EXCEPT !.away = [odds |-> odds,
                                                 bookmaker |-> bookmaker_name]]
                     ELSE best
         IN  scan_outcomes_abs(outcomes, k + 1, bookmaker_name, home_team, away_team, next)

\* the for-loop over one market's outcomes, from the k-th on (lines 90-97);
\* best is [home |-> [odds, bookmaker], away |-> [odds, bookmaker]]
RECURSIVE scan_outcomes(_, _, _, _, _, _)
scan_outcomes(outcomes, k, bookmaker_name, home_team, away_team, best) ==
    IF k > Len(outcomes) THEN best
    ELSE LET odds == Get(outcomes[k], "price", Zero)
             team == Get(outcomes[k], "name", "")
             next == IF team = home_team /\ FGt(odds, best.home.odds)
                     THEN [best EXCEPT !.home = [odds |-> odds,
                                                 bookmaker |-> bookmaker_name]]
                     ELSE IF team = away_team /\ FGt(odds, best.away.odds)
                     THEN [best EXCEPT !.away = [odds |-> odds,
                                                 bookmaker |-> bookmaker_name]]
                     ELSE best
         IN  scan_outcomes(outcomes, k + 1, bookmaker_name, home_team, away_team, next)

\* the loop over one bookmaker's markets reading the outcomes of every market,
\* whatever its key
RECURSIVE scan_markets_any(_, _, _, _, _, _)
scan_markets_any(markets, k, bookmaker_name, home_team, away_team, best) ==
    IF k > Len(markets) THEN best
    ELSE scan_markets_any(markets, k + 1, bookmaker_name, home_team, away_team,
             scan_outcomes(Get(markets[k], "outcomes", <<>>), 1,
                           bookmaker_name, home_team, away_team, best))

\* the for-loop over one bookmaker's markets, from the k-th on (lines 86-97);
\* a market without a key has key None, which is not 'h2h'
RECURSIVE scan_markets(_, _, _, _, _, _)
scan_markets(markets, k, bookmaker_name, home_team, away_team, best) ==
    IF k > Len(markets) THEN best
    ELSE LET next == IF Get(markets[k], "key", "") = "h2h"
                     THEN scan_outcomes(Get(markets[k], "outcomes", <<>>), 1,
                                        bookmaker_name, home_team, away_team, best)
                     ELSE best
         IN  scan_markets(markets, k + 1, bookmaker_name, home_team, away_team, next)

\* the for-loop over the bookmakers, from the k-th on (lines 82-97)
RECURSIVE scan_bookmakers(_, _, _, _, _)
scan_bookmakers(bookmakers, k, home_team, away_team, best) ==
    IF k > Len(bookmakers) THEN best
    ELSE scan_bookmakers(bookmakers, k + 1, home_team, away_team,
             scan_markets(Get(bookmakers[k], "markets", <<>>), 1,
                          Get(bookmakers[k], "title", "Unknown"),
                          home_team, away_team, best))

\* the best odds of each side (lines 75-97).  game_data.get('home_team') and
\* outcome.get('name') are None when the key is missing; the model writes that
\* absent name "", and no input carries an empty string as a name
best_odds(game_data) ==
    scan_bookmakers(Get(game_data, "bookmakers", <<>>), 1,
                    Get(game_data, "home_team", ""), Get(game_data, "away_team", ""),
                    [home |-> [odds |-> Zero, bookmaker |-> ""],
                     away |-> [odds |-> Zero, bookmaker |-> ""]])

\* lines 99-110 of scan_game, the loops having left the best odds in best
scan_game_best(self_min, self_max, now, game_data, best) ==
    IF best.home.odds = Zero \/ best.away.odds = Zero THEN NoneVal
    ELSE calculate_arbitrage(self_min, self_max, now, game_data,
                             best.home.odds, best.home.bookmaker,
                             best.away.odds, best.away.bookmaker)

\* scan_game reading game_data['bookmakers'], which raises on a missing key
scan_game_subscript(self_min, self_max, now, game_data) ==
    IF "bookmakers" \notin DOMAIN game_data THEN [raises |-> "KeyError"]
    ELSE IF Len(game_data.bookmakers) < 2 THEN NoneVal
    ELSE scan_game_best(self_min, self_max, now, game_data, best_odds(game_data))

\* what scan_game(game_data) returns on a detector with thresholds self_min and
\* self_max, the clock reading `now`: an ArbitrageOpportunity or None
scan_game(self_min, self_max, now, game_data) ==
    IF Len(Get(game_data, "bookmakers", <<>>)) < 2 THEN NoneVal
    ELSE scan_game_best(self_min, self_max, now, game_data, best_odds(game_data))

\* the sort key of scan_multiple_games: lambda x: x.profit_percentage
sort_key(x) == x.profit_percentage

\* x put into a list that is descending by key, after every element whose key is
\* not smaller than its own
RECURSIVE insert_desc(_, _)
insert_desc(sorted, x) ==
    IF sorted = <<>> THEN <<x>>
    ELSE IF FLt(sort_key(Head(sorted)), sort_key(x)) THEN <<x>> \o sorted
    ELSE <<Head(sorted)>> \o insert_desc(Tail(sorted), x)

\* x put into a list that is descending by key, before every element whose key is
\* not greater than its own
RECURSIVE insert_desc_first(_, _)
insert_desc_first(sorted, x) ==
    IF sorted = <<>> THEN <<x>>
    ELSE IF FLe(sort_key(Head(sorted)), sort_key(x)) THEN <<x>> \o sorted
    ELSE <<Head(sorted)>> \o insert_desc_first(Tail(sorted), x)

\* a descending sort that reverses the order of equal keys
RECURSIVE sort_from_unstable(_, _, _)
sort_from_unstable(opportunities, k, sorted) ==
    IF k > Len(opportunities) THEN sorted
    ELSE sort_from_unstable(opportunities, k + 1,
                            insert_desc_first(sorted, opportunities[k]))

\* the sort from the k-th element on, the elements before it already in sorted
RECURSIVE sort_from(_, _, _)
sort_from(opportunities, k, sorted) ==
    IF k > Len(opportunities) THEN sorted
    ELSE sort_from(opportunities, k + 1, insert_desc(sorted, opportunities[k]))

\* sort_desc with the order of equal keys reversed
sort_desc_unstable(opportunities) == sort_from_unstable(opportunities, 1, <<>>)

\* opportunities.sort(key=lambda x: x.profit_percentage, reverse=True): Python's
\* sort is stable, and with reverse=True equal keys keep their original order
sort_desc(opportunities) == sort_from(opportunities, 1, <<>>)

\* lines 112-113 of scan_game: if opportunity: self.opportunities_found.append(opportunity)
record(found, opportunity) ==
    IF IsNone(opportunity) THEN found ELSE Append(found, opportunity)

\* lines 130-132 of scan_multiple_games for one game whose scan returned opp:
\* scan_game has recorded it in the history, and the local list collects it
scan_step(lists, opp) ==
    [found |-> record(lists.found, opp),
     opportunities |-> record(lists.opportunities, opp)]

\* the loop of scan_multiple_games from the k-th game on (lines 129-132), on
\* lists = [found |-> the history, opportunities |-> the local list]
RECURSIVE scan_games(_, _, _, _, _, _)
scan_games(self_min, self_max, now, games, k, lists) ==
    IF k > Len(games) THEN lists
    ELSE scan_games(self_min, self_max, now, games, k + 1,
                    scan_step(lists, scan_game(self_min, self_max, now, games[k])))

\* the end of scan_multiple_games with the history replaced by its sorted self
sorted_history(lists) ==
    [found |-> sort_desc(lists.found), opportunities |-> sort_desc(lists.opportunities)]

\* lines 134-137 of scan_multiple_games: the local list is sorted and returned
sorted_result(lists) ==
    [found |-> lists.found, opportunities |-> sort_desc(lists.opportunities)]

\* scan_multiple_games(games) on a detector whose history is found:
\* [found |-> the history afterwards, opportunities |-> the list returned]
scan_multiple_games(self_min, self_max, now, found, games) ==
    sorted_result(scan_games(self_min, self_max, now, games, 1,
                             [found |-> found, opportunities |-> <<>>]))

\* the dict that calculate_optimal_stakes returns (lines 309-317), built from the
\* unrounded amounts; a zero bankroll makes profit / total_bankroll raise
\* ZeroDivisionError
stakes_dict(total_bankroll, stake_home_amount, stake_away_amount, home_wins_return, away_wins_return, profit) ==
    IF total_bankroll = Zero THEN [raises |-> "ZeroDivisionError"]
    ELSE [stake_home |-> Round2(stake_home_amount),
          stake_away |-> Round2(stake_away_amount),
          total_staked |-> Round2(FAdd(stake_home_amount, stake_away_amount)),
          expected_profit |-> Round2(profit),
          profit_percentage |-> Round2(FMul(FDiv(profit, total_bankroll), Hundred)),
          home_wins_return |-> Round2(home_wins_return),
          away_wins_return |-> Round2(away_wins_return)]

\* line 307 of calculate_optimal_stakes: profit = home_wins_return - total_bankroll
stakes_profit(total_bankroll, stake_home_amount, stake_away_amount, home_wins_return, away_wins_return) ==
    stakes_dict(total_bankroll, stake_home_amount, stake_away_amount,
                home_wins_return, away_wins_return,
                FSub(home_wins_return, total_bankroll))

\* lines 303-304 of calculate_optimal_stakes: the return of each outcome
stakes_returns(opportunity, total_bankroll, stake_home_amount, stake_away_amount) ==
    stakes_profit(total_bankroll, stake_home_amount, stake_away_amount,
                  FMul(stake_home_amount, opportunity.best_home_odds),
                  FMul(stake_away_amount, opportunity.best_away_odds))

\* calculate_optimal_stakes with the returns computed from the rounded stakes
calculate_optimal_stakes_from_rounded(opportunity, total_bankroll) ==
    stakes_returns(opportunity, total_bankroll,
        Round2(FMul(FDiv(opportunity.stake_home, Hundred), total_bankroll)),
        Round2(FMul(FDiv(opportunity.stake_away, Hundred), total_bankroll)))

\* calculate_optimal_stakes(opportunity, total_bankroll)
calculate_optimal_stakes(opportunity, total_bankroll) ==
    stakes_returns(opportunity, total_bankroll,
                   FMul(FDiv(opportunity.stake_home, Hundred), total_bankroll),
                   FMul(FDiv(opportunity.stake_away, Hundred), total_bankroll))

\* res += a[i] for the elements i .. last of a
RECURSIVE sum_sequential(_, _, _, _)
sum_sequential(a, i, last, res) ==
    IF i > last THEN res ELSE sum_sequential(a, i + 1, last, FAdd(res, a[i]))

\* r[j] += a[i + j] for every full block of 8 elements after the first i
\* elements of a, up to the element numbered last
RECURSIVE sum_blocks(_, _, _, _)
sum_blocks(a, i, last, r) ==
    IF i >= last THEN r
    ELSE sum_blocks(a, i + 8, last, [j \in 1..8 |-> FAdd(r[j], a[i + j])])

\* the eight accumulators added up in pairs, then the elements left over
sum_unrolled(a, r) ==
    sum_sequential(a, Len(a) - (Len(a) % 8) + 1, Len(a),
                   FAdd(FAdd(FAdd(r[1], r[2]), FAdd(r[3], r[4])),
                        FAdd(FAdd(r[5], r[6]), FAdd(r[7], r[8]))))

\* where numpy splits a list of n > 128 elements in two
split_at(n) == (n \div 2) - ((n \div 2) % 8)

\* numpy's pairwise summation of a list of floats: fewer than 8 elements are
\* added up in order, up to 128 in eight interleaved accumulators, and a longer
\* list is split in two
RECURSIVE pairwise_sum(_)
pairwise_sum(a) ==
    IF Len(a) < 8 THEN sum_sequential(a, 1, Len(a), Zero)
    ELSE IF Len(a) <= 128
    THEN sum_unrolled(a, sum_blocks(a, 8, Len(a) - (Len(a) % 8), SubSeq(a, 1, 8)))
    ELSE FAdd(pairwise_sum(SubSeq(a, 1, split_at(Len(a)))),
              pairwise_sum(SubSeq(a, split_at(Len(a)) + 1, Len(a))))

\* np.mean(profits) of a non-empty list: the sum, begun at 0.0, over the count
mean(profits) == FDiv(FAdd(Zero, pairwise_sum(profits)), FInt(Len(profits)))

\* max(profits) of a non-empty list
RECURSIVE max_from(_, _, _)
max_from(xs, k, best) ==
    IF k > Len(xs) THEN best
    ELSE max_from(xs, k + 1, IF FGt(xs[k], best) THEN xs[k] ELSE best)

\* min(profits) of a non-empty list
RECURSIVE min_from(_, _, _)
min_from(xs, k, best) ==
    IF k > Len(xs) THEN best
    ELSE min_from(xs, k + 1, IF FLt(xs[k], best) THEN xs[k] ELSE best)

\* the counting loops of get_summary_stats (lines 333-346): a dict from each
\* value of the field to the number of entries carrying it
count_by(found, field) ==
    [v \in {found[i][field] : i \in 1..Len(found)} |->
        Cardinality({i \in 1..Len(found) : found[i][field] = v})]

\* the dict get_summary_stats returns for a non-empty history (lines 348-355).
\* np.mean returns a numpy.float64, which round() rounds as numpy does; max()
\* and min() return Python floats, which round() rounds as Python does
summary_of(found, profits) ==
    [total_opportunities |-> Len(found),
     avg_profit |-> NpRound2(mean(profits)),
     max_profit |-> Round2(max_from(profits, 2, profits[1])),
     min_profit |-> Round2(min_from(profits, 2, profits[1])),
     by_sport |-> count_by(found, "sport"),
     by_risk |-> count_by(found, "risk_level")]

\* get_summary_stats without the test for an empty history: max() of an empty
\* list raises
get_summary_stats_unguarded(found) ==
    IF found = <<>> THEN [raises |-> "ValueError"]
    ELSE summary_of(found, [i \in 1..Len(found) |-> found[i].profit_percentage])

\* get_summary_stats() on a detector whose history is found
get_summary_stats(found) ==
    IF found = <<>>
    THEN [total_opportunities |-> 0, avg_profit |-> Zero, max_profit |-> Zero,
          by_sport |-> <<>>, by_risk |-> <<>>]
    ELSE summary_of(found, [i \in 1..Len(found) |-> found[i].profit_percentage])

---------------------------------------------------------------------------
(* The inputs the model draws *)

\* __init__(min_profit_threshold, max_profit_threshold): the defaults (1%, 15%),
\* a range from 0 to 5%, and a range from 25% to 50%
Thresholds ==
    {<<F(1, 100), F(15, 100)>>, <<Zero, F(5, 100)>>, <<F(25, 100), F(50, 100)>>}

HomeTeam == "Los Angeles Lakers"
AwayTeam == "Boston Celtics"

\* a bookmaker quoting both sides of the head-to-head market
Quoting(title, home_price, away_price) ==
    [title |-> title,
     markets |-> <<[key |-> "h2h",
                    outcomes |-> <<[name |-> HomeTeam, price |-> home_price],
                                   [name |-> AwayTeam, price |-> away_price]>>]>>]

\* a bookmaker listed without any market
Silent(title) == [title |-> title, markets |-> <<>>]

Game(id, bookmakers) ==
    [id |-> id, sport_key |-> "basketball_nba", sport_title |-> "NBA",
     commence_time |-> [hours |-> 24],
     home_team |-> HomeTeam, away_team |-> AwayTeam, bookmakers |-> bookmakers]

\* the sequences over S of length at most n
SeqsUpTo(S, n) == UNION {[1..k -> S] : k \in 0..n}

\* the home and away prices a bookmaker quotes in the single-call specification:
\* two bookmakers each with the better price of one side; implied probabilities
\* summing to 1.0; an arbitrage of 2.9% within one bookmaker; the demo's best
\* prices at one bookmaker;
\* profits of 0.25 and of 0.5, each to the last bit; an American-looking price
\* beside a long shot; and profits a last bit above 0.05 and above 0.03
ScanQuotes ==
    {<<F(215, 100), F(170, 100)>>, <<F(170, 100), F(220, 100)>>,
     <<F(2, 1), F(2, 1)>>, <<F(2, 1), F(212, 100)>>,
     <<F(215, 100), F(220, 100)>>, <<F(250, 100), F(250, 100)>>,
     <<F(3, 1), F(3, 1)>>, <<F(170, 100), F(500, 1)>>,
     <<F(210, 100), F(210, 100)>>, <<F(206, 100), F(206, 100)>>}
ScanTitles == {"DraftKings", "FanDuel"}

ScanBookmakers ==
    {Quoting(t, q[1], q[2]) : t \in ScanTitles, q \in ScanQuotes}
    \cup {Silent(t) : t \in ScanTitles}

\* a dict without one of its keys
Without(dict, key) == [k \in DOMAIN dict \ {key} |-> dict[k]]

\* the bookmakers of an arbitrage of 1.23%, and of the demo's arbitrage of 8.7%
SmallEdge ==
    <<Quoting("DraftKings", F(205, 100), F(170, 100)),
      Quoting("FanDuel", F(170, 100), F(2, 1))>>
LargeEdge ==
    <<Quoting("DraftKings", F(215, 100), F(175, 100)),
      Quoting("FanDuel", F(170, 100), F(220, 100))>>

\* commence times: already started, an hour away, two hours, two days, two days
\* and an hour, a string that is no date, and the empty string
CommenceTimes ==
    {[hours |-> -1], [hours |-> 1], [hours |-> 2], [hours |-> 48], [hours |-> 49],
     [text |-> "not-a-date"], [text |-> ""]}

\* games that differ in their commence time, one of them lacking it
TimeGames ==
    {[Game("time_game", b) EXCEPT !.commence_time = c] :
        b \in {SmallEdge, LargeEdge}, c \in CommenceTimes}
    \cup {Without(Game("time_game", b), "commence_time") : b \in {SmallEdge, LargeEdge}}

\* games for the risk levels: a best price under 1.10 (profit 0.85%), a bookmaker
\* outside the known ones with a profit of 4.76%, and with one of 10%
RiskGames ==
    {Game("risk_game", <<Quoting("DraftKings", F(105, 100), F(500, 1)),
                         Quoting("FanDuel", F(101, 100), F(2, 1))>>),
     Game("risk_game", <<Quoting("Bovada", F(2, 1), F(170, 100)),
                         Quoting("DraftKings", F(170, 100), F(220, 100))>>),
     Game("risk_game", <<Quoting("Bovada", F(220, 100), F(170, 100)),
                         Quoting("DraftKings", F(170, 100), F(220, 100))>>)}

\* a bookmaker whose one head-to-head market holds the given outcomes
Offering(title, outcomes) ==
    [title |-> title, markets |-> <<[key |-> "h2h", outcomes |-> outcomes]>>]

\* games with parts missing: no bookmakers key, an empty bookmakers list,
\* bookmakers without title and markets, markets without key or outcomes, outcomes
\* without name or price, and games without id, sport, teams and commence time
\* whose outcomes carry prices
SparseGames ==
    {[sport_key |-> "basketball_nba"],
     Without(Game("sparse_game", LargeEdge), "bookmakers"),
     Game("sparse_game", <<>>),
     Game("sparse_game", <<[key |-> "draftkings"], [key |-> "fanduel"]>>),
     Game("sparse_game", <<[title |-> "DraftKings", markets |-> <<[last_update |-> 0]>>],
                           [title |-> "FanDuel", markets |-> <<[key |-> "h2h"]>>]>>),
     Game("sparse_game", <<Offering("DraftKings", <<[name |-> HomeTeam],
                                                    [price |-> F(250, 100)]>>),
                           Offering("FanDuel", <<[name |-> AwayTeam,
                                                  price |-> F(220, 100)]>>)>>),
     [bookmakers |-> LargeEdge],
     [away_team |-> AwayTeam,
      bookmakers |-> <<[markets |-> <<[key |-> "h2h",
                                       outcomes |-> <<[price |-> F(215, 100)]>>]>>],
                       Offering("FanDuel", <<[name |-> AwayTeam,
                                              price |-> F(220, 100)]>>)>>]}

\* games with prices that are not positive: the home side quoted at -150 and at 0
\* only, and the home side quoted at -150 by one bookmaker and at 2.15 by another
NonPositiveGames ==
    {Game("american_game", <<Quoting("DraftKings", F(-150, 1), F(3, 1)),
                             Quoting("FanDuel", Zero, F(3, 1))>>),
     Game("american_game", <<Quoting("DraftKings", F(-150, 1), F(170, 100)),
                             Quoting("FanDuel", F(215, 100), F(220, 100))>>)}

\* a bookmaker quoting the head-to-head market with a Draw among its outcomes,
\* between a spreads and a totals market
Noisy(title, home_price, away_price) ==
    [title |-> title,
     markets |-> <<[key |-> "spreads",
                    outcomes |-> <<[name |-> HomeTeam, price |-> F(3, 1)],
                                   [name |-> AwayTeam, price |-> F(3, 1)]>>],
                   [key |-> "h2h",
                    outcomes |-> <<[name |-> "Draw", price |-> F(5, 1)],
                                   [name |-> HomeTeam, price |-> home_price],
                                   [name |-> AwayTeam, price |-> away_price]>>],
                   [key |-> "totals",
                    outcomes |-> <<[name |-> "Over", price |-> F(4, 1)],
                                   [name |-> "Under", price |-> F(4, 1)]>>]>>]

\* the demo's arbitrage, the small one and a game without arbitrage, with markets
\* and outcomes that scan_game does not read
NoisyGames ==
    {Game("noisy_game", <<Noisy("DraftKings", F(215, 100), F(175, 100)),
                          Noisy("FanDuel", F(170, 100), F(220, 100))>>),
     Game("noisy_game", <<Noisy("DraftKings", F(205, 100), F(170, 100)),
                          Quoting("FanDuel", F(170, 100), F(2, 1))>>),
     Game("noisy_game", <<Noisy("DraftKings", F(170, 100), F(170, 100)),
                          Noisy("FanDuel", F(170, 100), F(2, 1))>>)}

\* the games of the single-call specification
ScanGames ==
    {Game("arb_game_1", b) : b \in SeqsUpTo(ScanBookmakers, MaxBookmakers)}
    \cup TimeGames \cup RiskGames \cup SparseGames \cup NonPositiveGames
    \cup NoisyGames

\* prices handed to _odds_to_probability on its own
ProbPrices ==
    {F(-150, 1), F(-100, 1), F(-1, 2), Zero, F(1, 2), One, F(150, 100),
     F(170, 100), F(199, 100), F(2, 1), F(201, 100), F(215, 100), F(220, 100),
     F(250, 100), F(3, 1), F(100, 1), F(150, 1), F(500, 1)}

Bankrolls == {One, F(1000, 1), F(-1000, 1)}

\* the games of the history specification: one arbitrage (8.7%) under two ids, a
\* larger one (10%) at an unknown bookmaker, one of 35.585%, a lone bookmaker,
\* and a small arbitrage (1.23%) of a game two hours after the epoch
HistGames ==
    {Game("game_1", <<Quoting("DraftKings", F(215, 100), F(170, 100)),
                      Quoting("FanDuel", F(170, 100), F(220, 100))>>),
     Game("game_2", <<Quoting("DraftKings", F(215, 100), F(170, 100)),
                      Quoting("FanDuel", F(170, 100), F(220, 100))>>),
     Game("game_3", <<Quoting("DraftKings", F(220, 100), F(170, 100)),
                      Quoting("Bovada", F(170, 100), F(220, 100))>>),
     Game("game_4", <<Quoting("DraftKings", F(207, 100), F(170, 100)),
                      Quoting("FanDuel", F(170, 100), F(393, 100))>>),
     Game("game_5", <<Quoting("DraftKings", F(215, 100), F(220, 100))>>),
     [Game("game_6", SmallEdge) EXCEPT !.commence_time = [hours |-> 2]]}

HistBankrolls == {F(1000, 1), Zero}

---------------------------------------------------------------------------
(* OddsCollector: the methods that fetch, and the cache of get_odds.       *)
(* A method that sends an HTTP request waits in requests.get (lines 40     *)
(* and 87) for the answer, a method that announces what it does waits in   *)
(* print, and nothing is locked meanwhile: what the method does between    *)
(* two such calls is one step, at one reading of the clock, and other      *)
(* callers run in between.                                                 *)

\* self.cache_duration, in seconds
cache_duration == 300

\* the seconds in a day: timedelta.seconds is the seconds field of a duration kept
\* as days, seconds and microseconds, so it lies in 0..86399
SecondsPerDay == 86400

\* the seconds in an hour, the unit of timedelta(hours=...)
SecondsPerHour == 3600

\* (datetime.now() - cached_time).seconds, the times in seconds
seconds_between(now, cached_time) == (now - cached_time) % SecondsPerDay

\* f"{sport}_{regions}_{markets}"
cache_key(sport, regions, markets) == sport \o "_" \o regions \o "_" \o markets

\* self.cache = {}
EmptyCache == [k \in {} |-> NoneVal]

\* What get_odds hands on is whatever the body of the answer decodes to, so the
\* values of the collector carry their type: a list is List(items), a number is
\* Number(n), and None (JSON null) is NoneVal.
List(items) == [list |-> items]
Number(n) == [number |-> n]
IsList(x) == DOMAIN x = {"list"}

\* datetime.isoformat() of a time without zone, and the same instant as the
\* API writes it, with the zone Z
isoformat(t) == [at |-> t, zone |-> ""]
zulu(t) == [at |-> t, zone |-> "Z"]

\* response.json() of a well-formed answer: the list of games the API returns for
\* the endpoint and parameters of the request, as of the time the request was
\* sent; one game stands for the list, starting a day later
response_json(request, sent) ==
    List(<<[sport_key |-> request.sport, regions |-> request.regions,
            markets |-> request.markets, oddsFormat |-> request.odds_format,
            fetched |-> sent, commence_time |-> zulu(sent + SecondsPerDay)]>>)

\* str.upper() of the sport keys of the model that have no title
upper(s) == IF s = "basketball" THEN "BASKETBALL" ELSE s

\* _get_sport_title(sport_key)
get_sport_title(sport_key) ==
    CASE sport_key = "americanfootball_nfl" -> "NFL"
      [] sport_key = "basketball_nba" -> "NBA"
      [] sport_key = "icehockey_nhl" -> "NHL"
      [] sport_key = "baseball_mlb" -> "MLB"
      [] OTHER -> upper(sport_key)

\* _get_mock_teams(sport)
get_mock_teams(sport) ==
    CASE sport = "americanfootball_nfl" ->
            <<"Kansas City Chiefs", "Buffalo Bills", "San Francisco 49ers",
              "Dallas Cowboys", "Philadelphia Eagles", "Miami Dolphins">>
      [] sport = "basketball_nba" ->
            <<"Boston Celtics", "Los Angeles Lakers", "Milwaukee Bucks",
              "Denver Nuggets", "Phoenix Suns", "Golden State Warriors">>
      [] sport = "icehockey_nhl" ->
            <<"Colorado Avalanche", "Tampa Bay Lightning", "Boston Bruins",
              "Toronto Maple Leafs", "Edmonton Oilers", "Vegas Golden Knights">>
      [] sport = "baseball_mlb" ->
            <<"Los Angeles Dodgers", "New York Yankees", "Houston Astros",
              "Atlanta Braves", "San Diego Padres", "Philadelphia Phillies">>
      [] OTHER -> <<"Team A", "Team B", "Team C", "Team D">>

\* the mock games of one call
MockGames == 5

\* the prices of the i-th mock game (lines 182-183, 213-214): home_odds, away_odds,
\* and the two of the second bookmaker
mock_prices(home_odds, away_odds) ==
    [home_odds |-> home_odds, away_odds |-> away_odds,
     home_odds_2 |-> FAdd(home_odds, F(5, 100)),
     away_odds_2 |-> FSub(away_odds, F(5, 100))]

mock_odds ==
    [i \in 0..(MockGames - 1) |->
        mock_prices(FAdd(F(18, 10), FMul(FInt(i), F(1, 10))),
                    FSub(F(22, 10), FMul(FInt(i), F(1, 10))))]

\* one bookmaker of a mock game, quoting the two teams head to head
mock_bookmaker(key, title, home_team, home_odds, away_team, away_odds) ==
    [key |-> key, title |-> title,
     markets |-> <<[key |-> "h2h",
                    outcomes |-> <<[name |-> home_team, price |-> home_odds],
                                   [name |-> away_team, price |-> away_odds]>>]>>]

\* the i-th game of _get_mock_odds (lines 176-220); teams[j] of the code is
\* teams[j + 1] here
mock_game(sport, now, i, home_team, away_team, prices) ==
    [id |-> "mock_" \o sport \o "_" \o ToString(i),
     sport_key |-> sport,
     sport_title |-> get_sport_title(sport),
     commence_time |-> isoformat(now + SecondsPerHour * (24 + i * 12)),
     home_team |-> home_team,
     away_team |-> away_team,
     bookmakers |->
        <<mock_bookmaker("draftkings", "DraftKings", home_team, prices.home_odds,
                         away_team, prices.away_odds),
          mock_bookmaker("fanduel", "FanDuel", home_team, prices.home_odds_2,
                         away_team, prices.away_odds_2)>>]

mock_games(sport, now, teams) ==
    [k \in 1..MockGames |->
        mock_game(sport, now, k - 1, teams[((2 * (k - 1)) % Len(teams)) + 1],
                  teams[((2 * (k - 1) + 1) % Len(teams)) + 1], mock_odds[k - 1])]

\* _get_mock_odds(sport): five mock games of the sport, timed from now
get_mock_odds(sport, now) == List(mock_games(sport, now, get_mock_teams(sport)))

\* _get_mock_sports()
get_mock_sports ==
    List(<<[key |-> "americanfootball_nfl", title |-> "NFL", active |-> TRUE],
           [key |-> "basketball_nba", title |-> "NBA", active |-> TRUE],
           [key |-> "icehockey_nhl", title |-> "NHL", active |-> TRUE],
           [key |-> "baseball_mlb", title |-> "MLB", active |-> TRUE]>>)

\* the answers to an HTTP request.  "raises": requests.get, raise_for_status or
\* response.json() raises (no connection, a timeout, a status of 400 or more, a
\* body that is no JSON); "list": a well-formed answer; "null" and "number": a
\* body that is JSON but no list, here null and 42.
AnswerKinds == {"raises", "list", "null", "number"}

\* the body of an answer that does not raise
response_body(kind, well_formed) ==
    CASE kind = "list" -> well_formed
      [] kind = "null" -> NoneVal
      [] kind = "number" -> Number(42)

(* The callers of the collector are threads.  A caller runs on its own from one *)
(* point where it is held up, and other callers run, to the next: the wait for *)
(* the answer in requests.get (lines 40, 87) and the writing of a message by   *)
(* print (lines 44, 71, 84, 95, 99).  Between two such points a method makes   *)
(* at most one access to the cache.                                            *)

\* get_odds, lines 66-87, up to the first point where it is held up: the cache
\* is tested at the clock reading `now`; a young entry is read and announced
\* (line 71); else, without an API key, the mock data is announced (line 84);
\* else the request is sent (line 87).  The result is [line |-> where get_odds is
\* held up, entry |-> the cache entry read, if any].
get_odds_call(self_api_key, self_cache, now, request) ==
    LET key == cache_key(request.sport, request.regions, request.markets)
    IN  IF /\ key \in DOMAIN self_cache
           /\ seconds_between(now, self_cache[key].cached_time) < cache_duration
        THEN [line |-> 71, entry |-> self_cache[key]]
        ELSE IF self_api_key = ""
        THEN [line |-> 84, entry |-> NoneVal]
        ELSE [line |-> 87, entry |-> NoneVal]

\* the cache with the entry that line 93 writes
stored(self_cache, request, data, now) ==
    (cache_key(request.sport, request.regions, request.markets)
        :> [cached_data |-> data, cached_time |-> now]) @@ self_cache

\* get_odds, lines 87-99, from the arrival of the answer of the given kind, at
\* the clock reading `now`, to the request sent at `sent`, up to the next print:
\* the body is stored (line 93) and announced (line 95); when something raises,
\* the error is announced (line 99).  The length of the body is taken after it
\* is stored, so a body without a length is in the cache when the except branch
\* is taken.  The result is [cache |-> the cache afterwards, line |-> where
\* get_odds is held up, entry |-> the cache entry written, if it is announced].
get_odds_answer(self_cache, now, request, sent, kind) ==
    IF kind = "raises"
    THEN [cache |-> self_cache, line |-> 99, entry |-> NoneVal]
    ELSE IF kind = "list"
    THEN [cache |-> stored(self_cache, request, response_json(request, sent), now),
          line |-> 95,
          entry |-> [cached_data |-> response_json(request, sent),
                     cached_time |-> now]]
    ELSE [cache |-> stored(self_cache, request,
                           response_body(kind, response_json(request, sent)), now),
          line |-> 99, entry |-> NoneVal]

\* get_odds, from the print of the given line to its return (lines 72, 85, 96,
\* 100): the value returned, the mock data being timed from the clock reading `now`
get_odds_return(line, entry, sport, now) ==
    IF line = 71 \/ line = 95 THEN entry.cached_data ELSE get_mock_odds(sport, now)

\* where get_odds, returning after the print of the given line, has its data from
source_of(line) ==
    CASE line = 71 -> "cache"
      [] line = 84 -> "mock"
      [] line = 95 -> "api"
      [] line = 99 -> "error"

\* the sports of get_multiple_sports(None) (lines 116-121)
default_sports ==
    <<"americanfootball_nfl", "basketball_nba", "icehockey_nhl", "baseball_mlb">>

\* the parameters of get_odds(sport), the defaults of lines 50-52
default_request(sport) ==
    [sport |-> sport, regions |-> "us", markets |-> "h2h,spreads,totals",
     odds_format |-> "decimal"]

\* results = {}
EmptyResults == [s \in {} |-> NoneVal]

\* results[sport] = data
assigned(results, sport, data) == (sport :> data) @@ results

\* sports of get_multiple_sports(sports): the defaults for None
sports_or_default(sports) == IF IsNone(sports) THEN default_sports ELSE sports.list

\* datetime.fromisoformat(s.replace('Z', '+00:00')) <= cutoff_time, the cutoff
\* being a time without zone: comparing a time with zone to it raises TypeError
compares(commence_time) == commence_time.zone = ""

\* get_upcoming_games, lines 150-155 for one game: is it appended?  A game
\* without commence_time, or whose comparison raises, is skipped (line 154)
is_upcoming(game, cutoff_time) ==
    /\ "commence_time" \in DOMAIN game
    /\ compares(game.commence_time)
    /\ game.commence_time.at <= cutoff_time

\* get_upcoming_games, lines 146-157, all_games being what get_odds returned:
\* the games starting by the cutoff; a value that is no list cannot be iterated
\* (line 149) and the TypeError leaves the method
get_upcoming_games_from(all_games, now, hours_ahead) ==
    IF ~IsList(all_games) THEN [raises |-> "TypeError"]
    ELSE List(SelectSeq(all_games.list,
                  LAMBDA game : is_upcoming(game, now + SecondsPerHour * hours_ahead)))

\* response.json() of a well-formed answer to get_sports: the sports the API
\* lists at the time of the request, one standing for the list
sports_json(sent) ==
    List(<<[key |-> "basketball_nba", title |-> "NBA", active |-> TRUE,
            fetched |-> sent]>>)

\* the api_key given to OddsCollector(api_key): none, or a key
ApiKeys == {"", "odds-api-key"}

\* the requests made: the NBA head-to-head odds in decimal and in American format,
\* a request whose sport and regions spell the same cache key, and the defaults
Requests ==
    {[sport |-> "basketball_nba", regions |-> "us", markets |-> "h2h",
      odds_format |-> "decimal"],
     [sport |-> "basketball_nba", regions |-> "us", markets |-> "h2h",
      odds_format |-> "american"],
     [sport |-> "basketball", regions |-> "nba_us", markets |-> "h2h",
      odds_format |-> "decimal"],
     default_request("americanfootball_nfl")}

\* the lists handed to get_multiple_sports: None (the four defaults), no sport,
\* one sport, and one sport twice
SportLists ==
    {NoneVal, List(<<>>), List(<<"basketball_nba">>),
     List(<<"basketball_nba", "basketball_nba">>)}

\* the calls of get_upcoming_games: the default of 48 hours, and 24 hours
UpcomingCalls ==
    {[sport |-> "basketball_nba", hours_ahead |-> 48],
     [sport |-> "basketball_nba", hours_ahead |-> 24]}

\* the instants, in seconds, at which the collector is used: the start, 5
\* seconds, 5 minutes and a day later
Instants == {0, 5, 300, 86400}

\* the callers of the collector
Threads == 1..MaxThreads

\* a caller outside the collector, and one held up at `line` of the collector:
\* in `method` called with `arg`, in the get_odds of `request` (none in
\* get_sports) that tested the cache, or sent the request of get_sports, at the
\* clock reading `sent`; for get_multiple_sports the index k of the sport and the
\* results so far; and the cache entry that get_odds has read or written and is
\* about to return the data of
Idle == [pc |-> "idle"]
Held(method, argument, line, request, sent, k, results, entry) ==
    [pc |-> IF line = 40 \/ line = 87 THEN "requests.get" ELSE "print",
     line |-> line, method |-> method, arg |-> argument, request |-> request,
     sent |-> sent, k |-> k, results |-> results, entry |-> entry]

---------------------------------------------------------------------------
(* The operations *)

Init ==
    /\ \E t \in Thresholds :
          /\ min_profit_threshold = t[1]
          /\ max_profit_threshold = t[2]
    /\ opportunities_found = <<>>
    /\ clock = 0
    /\ op = "init"
    /\ arg = NoneVal
    /\ ret = NoneVal
    /\ scanned = <<>>
    /\ api_key = ""
    /\ cache = EmptyCache
    /\ wall = 0
    /\ served = NoneVal
    /\ threads = [t \in Threads |-> Idle]
    /\ entered = [calls |-> 0, requests |-> 0]

\* time passes
Tick ==
    /\ clock < MaxClock
    /\ clock' = clock + 1
    /\ UNCHANGED <<min_profit_threshold, max_profit_threshold, opportunities_found,
                   op, arg, ret, scanned>>
    /\ UNCHANGED collector

\* an operation returns: its name, argument and return value are noted, the
\* history and the call log are left as the operation made them
Return(name, argument, value, found, calls) ==
    /\ op' = name
    /\ arg' = argument
    /\ ret' = value
    /\ opportunities_found' = found
    /\ scanned' = calls
    /\ UNCHANGED <<min_profit_threshold, max_profit_threshold, clock>>
    /\ UNCHANGED collector

\* the calls of scan_game on each game of a list, at the present clock
Calls(games) == [k \in 1..Len(games) |-> [game_data |-> games[k], at |-> clock]]

\* scan_game giving None, and recording nothing, for a game whose id is already
\* in the history
ReturnScanGame_dedup(game_data, opportunity) ==
    IF \E i \in 1..Len(opportunities_found) :
          opportunities_found[i].game_id = Get(game_data, "id", "")
    THEN Return("scan_game", game_data, NoneVal, opportunities_found,
                scanned \o Calls(<<game_data>>))
    ELSE Return("scan_game", game_data, opportunity,
                record(opportunities_found, opportunity), scanned \o Calls(<<game_data>>))

\* scan_game(game_data) returning opportunity (lines 112-115)
ReturnScanGame(game_data, opportunity) ==
    Return("scan_game", game_data, opportunity,
           record(opportunities_found, opportunity), scanned \o Calls(<<game_data>>))

\* scan_game(game_data)
DoScanGame(game_data) ==
    ReturnScanGame(game_data, scan_game(min_profit_threshold, max_profit_threshold,
                                        clock, game_data))

\* scan_multiple_games(games) returning lists.opportunities
ReturnScanMultipleGames(games, lists) ==
    Return("scan_multiple_games", games, lists.opportunities, lists.found,
           scanned \o Calls(games))

\* scan_multiple_games(games)
DoScanMultipleGames(games) ==
    ReturnScanMultipleGames(games,
        scan_multiple_games(min_profit_threshold, max_profit_threshold, clock,
                            opportunities_found, games))

\* calculate_optimal_stakes(opportunity, total_bankroll)
DoCalculateOptimalStakes(opportunity, total_bankroll) ==
    /\ op' = "calculate_optimal_stakes"
    /\ arg' = [opportunity |-> opportunity, total_bankroll |-> total_bankroll]
    /\ ret' = calculate_optimal_stakes(opportunity, total_bankroll)
    /\ UNCHANGED <<min_profit_threshold, max_profit_threshold, opportunities_found,
                   clock, scanned>>
    /\ UNCHANGED collector

\* get_summary_stats emptying the history it has summarised
DoGetSummaryStats_clearing ==
    /\ op' = "get_summary_stats"
    /\ arg' = NoneVal
    /\ ret' = get_summary_stats(opportunities_found)
    /\ opportunities_found' = <<>>
    /\ UNCHANGED <<min_profit_threshold, max_profit_threshold, clock, scanned>>
    /\ UNCHANGED collector

\* get_summary_stats()
DoGetSummaryStats ==
    /\ op' = "get_summary_stats"
    /\ arg' = NoneVal
    /\ ret' = get_summary_stats(opportunities_found)
    /\ UNCHANGED <<min_profit_threshold, max_profit_threshold, opportunities_found,
                   clock, scanned>>
    /\ UNCHANGED collector

\* _odds_to_probability(odds)
DoOddsToProbability(odds) ==
    /\ op' = "_odds_to_probability"
    /\ arg' = odds
    /\ ret' = odds_to_probability(odds)
    /\ UNCHANGED <<min_profit_threshold, max_profit_threshold, opportunities_found,
                   clock, scanned>>
    /\ UNCHANGED collector

(* The history specification: any sequence of calls on one detector, at most *)
(* MaxScans games scanned in all.                                            *)
ScanGame ==
    /\ Len(scanned) < MaxScans
    /\ \E g \in HistGames : DoScanGame(g)

ScanMultipleGames ==
    \E games \in SeqsUpTo(HistGames, MaxScans - Len(scanned)) :
        DoScanMultipleGames(games)

CalculateOptimalStakes ==
    \E i \in 1..Len(opportunities_found), b \in HistBankrolls :
        DoCalculateOptimalStakes(opportunities_found[i], b)

GetSummaryStats == DoGetSummaryStats

Next ==
    \/ Tick
    \/ ScanGame
    \/ ScanMultipleGames
    \/ CalculateOptimalStakes
    \/ GetSummaryStats

Spec == Init /\ [][Next]_vars

(* The single-call specification: a fresh detector and one call of scan_game, *)
(* of scan_multiple_games or of _odds_to_probability; after scan_game        *)
(* returned an opportunity, calculate_optimal_stakes on it.                  *)
ScanOne ==
    /\ op = "init"
    /\ \E g \in ScanGames : DoScanGame(g)

ConvertOne ==
    /\ op = "init"
    /\ \E p \in ProbPrices : DoOddsToProbability(p)

StakeOne ==
    /\ op = "scan_game"
    /\ ~IsNone(ret)
    /\ \E b \in Bankrolls : DoCalculateOptimalStakes(ret, b)

BatchOne ==
    /\ op = "init"
    /\ \E games \in SeqsUpTo(HistGames, MaxBatch) : DoScanMultipleGames(games)

NextScan ==
    \/ ScanOne
    \/ BatchOne
    \/ ConvertOne
    \/ StakeOne

SpecScan == Init /\ [][NextScan]_vars


---------------------------------------------------------------------------
(* The collector specification: one OddsCollector and its callers, calling *)
(* the fetching methods at the instants; each HTTP request is answered, in *)
(* one of the ways of AnswerKinds, at the same or a later instant, and the *)
(* callers held up take their turns in any order.                          *)
InitOdds ==
    /\ min_profit_threshold = F(1, 100)
    /\ max_profit_threshold = F(15, 100)
    /\ opportunities_found = <<>>
    /\ clock = 0
    /\ op = "init"
    /\ arg = NoneVal
    /\ ret = NoneVal
    /\ scanned = <<>>
    /\ api_key \in ApiKeys
    /\ cache = EmptyCache
    /\ wall = 0
    /\ served = NoneVal
    /\ threads = [t \in Threads |-> Idle]
    /\ entered = [calls |-> 0, requests |-> 0]

\* time passes for the collector
Elapse ==
    /\ \E t \in Instants : t > wall /\ wall' = t
    /\ UNCHANGED <<api_key, cache, served, threads, entered, op, arg, ret>>
    /\ UNCHANGED detector

\* caller t makes a call that can send n requests: it is outside the collector,
\* and so that callers not be told apart by their names only, every caller before
\* it is inside
Enters(t, n) ==
    /\ entered.calls < MaxCalls
    /\ entered.requests + n <= MaxRequests
    /\ threads[t].pc = "idle"
    /\ \A u \in Threads : u < t => threads[u].pc # "idle"
    /\ entered' = [calls |-> entered.calls + 1, requests |-> entered.requests + n]

\* caller t is held up at one of the lines, in requests.get or in print
HeldAt(t, pc, lines) ==
    /\ threads[t].pc = pc
    /\ threads[t].line \in lines
    /\ UNCHANGED entered

\* a method of the collector returns value to caller t, having left the cache as
\* new_cache
ReturnOdds(t, name, argument, value, new_cache, new_served) ==
    /\ op' = name
    /\ arg' = argument
    /\ ret' = value
    /\ cache' = new_cache
    /\ served' = new_served
    /\ threads' = [threads EXCEPT ![t] = Idle]
    /\ UNCHANGED <<api_key, wall>>
    /\ UNCHANGED detector

\* a method of the collector called by t has run up to a point where it is held
\* up, having left the cache as new_cache
HoldOdds(t, frame, new_cache) ==
    /\ threads' = [threads EXCEPT ![t] = frame]
    /\ cache' = new_cache
    /\ UNCHANGED <<api_key, wall, served, op, arg, ret>>
    /\ UNCHANGED detector

\* where the get_odds of the frame has its data from, and the clock reading of
\* its cache test
served_by(frame) ==
    IF IsNone(frame.entry)
    THEN [from |-> source_of(frame.line), at |-> frame.sent]
    ELSE [from |-> source_of(frame.line), at |-> frame.sent,
          cached_time |-> frame.entry.cached_time]

\* the get_odds of a method called by t has run up to where `first` says: the
\* caller is held up there
GetOddsCalled(t, method, argument, request, k, results, first) ==
    HoldOdds(t, Held(method, argument, first.line, request, wall, k, results,
                     first.entry), cache)

\* caller t calls get_odds(sport, regions, markets, odds_format) (lines 66-87)
CallGetOdds(t, request) ==
    /\ Enters(t, 1)
    /\ GetOddsCalled(t, "get_odds", request, request, 0, EmptyResults,
                     get_odds_call(api_key, cache, wall, request))

\* get_multiple_sports(sports), lines 124-127 from the k-th sport on: the dict is
\* returned after the last sport, else get_odds is called for the k-th and runs
\* up to where it is held up
MultipleSportsFrom(t, sports, k, results) ==
    IF k > Len(sports_or_default(sports))
    THEN ReturnOdds(t, "get_multiple_sports", sports, results, cache, served)
    ELSE GetOddsCalled(t, "get_multiple_sports", sports,
                       default_request(sports_or_default(sports)[k]), k, results,
                       get_odds_call(api_key, cache, wall,
                                     default_request(sports_or_default(sports)[k])))

\* caller t calls get_multiple_sports(sports) (lines 115-127)
CallGetMultipleSports(t, sports) ==
    /\ Enters(t, Len(sports_or_default(sports)))
    /\ MultipleSportsFrom(t, sports, 1, EmptyResults)

\* caller t calls get_upcoming_games(sport, hours_ahead) (line 144)
CallGetUpcomingGames(t, call) ==
    /\ Enters(t, 1)
    /\ GetOddsCalled(t, "get_upcoming_games", call, default_request(call.sport), 0,
                     EmptyResults,
                     get_odds_call(api_key, cache, wall, default_request(call.sport)))

\* caller t calls get_sports() (lines 36-40): the request is sent whether or not
\* there is an API key
CallGetSports(t) ==
    /\ Enters(t, 1)
    /\ HoldOdds(t, Held("get_sports", NoneVal, 40, NoneVal, wall, 0, EmptyResults,
                        NoneVal), cache)

\* the get_odds of the frame goes on after the answer to its request
GetOddsAnswered(t, frame, answer) ==
    HoldOdds(t, Held(frame.method, frame.arg, answer.line, frame.request, frame.sent,
                     frame.k, frame.results, answer.entry), answer.cache)

\* the answer to the request that a get_odds of caller t waits for arrives (lines
\* 87-99): in get_odds itself, or in the get_odds that get_multiple_sports or
\* get_upcoming_games called
AnswerGetOdds(t, kind) ==
    /\ HeldAt(t, "requests.get", {87})
    /\ GetOddsAnswered(t, threads[t],
                       get_odds_answer(cache, wall, threads[t].request,
                                       threads[t].sent, kind))

\* the answer to the request of t's get_sports arrives (lines 40-44): whatever
\* the body decodes to is returned (line 42); when anything raises, the error is
\* announced (line 44)
AnswerGetSports(t, kind) ==
    /\ HeldAt(t, "requests.get", {40})
    /\ IF kind = "raises"
       THEN HoldOdds(t, Held("get_sports", NoneVal, 44, NoneVal, threads[t].sent, 0,
                             EmptyResults, NoneVal), cache)
       ELSE ReturnOdds(t, "get_sports", NoneVal,
                       response_body(kind, sports_json(threads[t].sent)), cache,
                       served)

\* the get_odds of the frame returns data to the method that called it: get_odds
\* itself returns to the caller (lines 72, 85, 96, 100), get_multiple_sports
\* assigns the result and goes on with the next sport (lines 125, 124),
\* get_upcoming_games filters the games and returns (lines 146-157)
GetOddsReturned(t, frame, data) ==
    CASE frame.method = "get_odds" ->
            ReturnOdds(t, "get_odds", frame.arg, data, cache, served_by(frame))
      [] frame.method = "get_multiple_sports" ->
            MultipleSportsFrom(t, frame.arg, frame.k + 1,
                               assigned(frame.results, frame.request.sport, data))
      [] frame.method = "get_upcoming_games" ->
            ReturnOdds(t, "get_upcoming_games", frame.arg,
                       get_upcoming_games_from(data, wall, frame.arg.hours_ahead),
                       cache, served)

\* the print that a get_odds of caller t is held up in has written its message,
\* and get_odds returns
PrintedGetOdds(t) ==
    /\ HeldAt(t, "print", {71, 84, 95, 99})
    /\ GetOddsReturned(t, threads[t],
                       get_odds_return(threads[t].line, threads[t].entry,
                                       threads[t].request.sport, wall))

\* the print of t's get_sports has written its message, and the mock sports are
\* returned (lines 44-45)
PrintedGetSports(t) ==
    /\ HeldAt(t, "print", {44})
    /\ ReturnOdds(t, "get_sports", NoneVal, get_mock_sports, cache, served)

GetOdds == \E t \in Threads, request \in Requests : CallGetOdds(t, request)

GetMultipleSports ==
    \E t \in Threads, sports \in SportLists : CallGetMultipleSports(t, sports)

GetUpcomingGames ==
    \E t \in Threads, call \in UpcomingCalls : CallGetUpcomingGames(t, call)

GetSports == \E t \in Threads : CallGetSports(t)

GetOddsAnswer == \E t \in Threads, kind \in AnswerKinds : AnswerGetOdds(t, kind)

GetSportsAnswer == \E t \in Threads, kind \in AnswerKinds : AnswerGetSports(t, kind)

GetOddsPrinted == \E t \in Threads : PrintedGetOdds(t)

GetSportsPrinted == \E t \in Threads : PrintedGetSports(t)

NextOdds ==
    \/ Elapse
    \/ GetOdds
    \/ GetMultipleSports
    \/ GetUpcomingGames
    \/ GetSports
    \/ GetOddsAnswer
    \/ GetSportsAnswer
    \/ GetOddsPrinted
    \/ GetSportsPrinted

SpecOdds == InitOdds /\ [][NextOdds]_vars

---------------------------------------------------------------------------
(* Reference notions used to state the claims *)

\* the elements of a list
Elements(list) == {list[k] : k \in 1..Len(list)}

\* the head-to-head quotes of a game, as [title, name, price] records
H2HQuotes(game_data) ==
    UNION {UNION {{[title |-> Get(b, "title", "Unknown"),
                    name |-> Get(o, "name", ""),
                    price |-> Get(o, "price", Zero)] :
                      o \in Elements(Get(m, "outcomes", <<>>))} :
                 m \in {m \in Elements(Get(b, "markets", <<>>)) :
                           Get(m, "key", "") = "h2h"}} :
           b \in Elements(Get(game_data, "bookmakers", <<>>))}

\* the positive prices quoted for a team
PricesFor(game_data, team) ==
    {q.price : q \in {q \in H2HQuotes(game_data) : q.name = team /\ FGt(q.price, Zero)}}

\* the greatest of a non-empty set of numbers
Greatest(S) == CHOOSE m \in S : \A x \in S : FLe(x, m)

\* both sides of the game have a price
Priced(game_data) ==
    /\ PricesFor(game_data, Get(game_data, "home_team", "")) # {}
    /\ PricesFor(game_data, Get(game_data, "away_team", "")) # {}

\* the combined implied probability of two prices
ImpliedTotal(home_odds, away_odds) ==
    FAdd(odds_to_probability(home_odds), odds_to_probability(away_odds))

\* the combined implied probability of the best prices of a priced game
BestTotal(game_data) ==
    ImpliedTotal(Greatest(PricesFor(game_data, Get(game_data, "home_team", ""))),
                 Greatest(PricesFor(game_data, Get(game_data, "away_team", ""))))

\* 1/total - 1
ProfitOf(total) == FSub(FDiv(One, total), One)

\* the profit of an opportunity as a fraction, from its best prices
ProfitFraction(opportunity) ==
    ProfitOf(ImpliedTotal(opportunity.best_home_odds, opportunity.best_away_odds))

\* |x - y| <= eps
Within(x, y, eps) == FLe(FAbs(FSub(x, y)), eps)

\* the numbers named in the claims
Cent == F(1, 100)
TenThousandth == F(1, 10000)
Tiny == F(1, 1000000000)
ThreePercent == F(3, 100)
FivePercent == F(5, 100)
ShortPrice == F(110, 100)
DefaultMin == F(1, 100)
DefaultMax == F(15, 100)
DemoHomePrice == F(215, 100)
DemoAwayPrice == F(220, 100)

\* what a scan emitted, as a list: nothing for None
AsList(opportunity) == IF IsNone(opportunity) THEN <<>> ELSE <<opportunity>>

\* the opportunities that scanning the calls of a list emits, in the order of the list
RECURSIVE Emitted(_)
Emitted(calls) ==
    IF calls = <<>> THEN <<>>
    ELSE AsList(scan_game(min_profit_threshold, max_profit_threshold,
                          Head(calls).at, Head(calls).game_data))
         \o Emitted(Tail(calls))

\* the entries of a list of opportunities whose profit is v, in the order of the list
RECURSIVE WithProfit(_, _)
WithProfit(opportunities, v) ==
    IF opportunities = <<>> THEN <<>>
    ELSE (IF Head(opportunities).profit_percentage = v THEN <<Head(opportunities)>>
          ELSE <<>>) \o WithProfit(Tail(opportunities), v)

---------------------------------------------------------------------------
(* The claims *)

\* both returns are within a cent of each other and of the target
EqualizedAt(target) ==
    /\ Within(ret.home_wins_return, ret.away_wins_return, Cent)
    /\ Within(ret.home_wins_return, target, Cent)
    /\ Within(ret.away_wins_return, target, Cent)

\* C1 (as claimed): after calculate_optimal_stakes on an opportunity that scan_game
\* returned, with a bankroll B > 0, home_wins_return and away_wins_return are equal
\* up to rounding (a cent), and both equal B * (1 + profit_fraction).
C1_StakeEqualization ==
    (op = "calculate_optimal_stakes" /\ FGt(arg.total_bankroll, Zero)) =>
        EqualizedAt(FMul(arg.total_bankroll,
                         FAdd(One, ProfitFraction(arg.opportunity))))

\* the bookmakers that supply at least one head-to-head quote
QuotingTitles(game_data) == {q.title : q \in H2HQuotes(game_data)}

\* C2 (as claimed): scan_game returns None for every game whose head-to-head quotes
\* come from fewer than 2 distinct bookmakers.
C2_SingleSourceRejected ==
    (op = "scan_game" /\ Cardinality(QuotingTitles(arg)) < 2) => IsNone(ret)

\* C3: scan_game returns None whenever the implied probabilities of the two best
\* prices sum to 1.0 or more, and the best prices of an emitted opportunity have
\* implied probabilities summing to strictly less than 1.0.
C3_NoArbitrageBoundary ==
    op = "scan_game" =>
        /\ (Priced(arg) /\ FGe(BestTotal(arg), One)) => IsNone(ret)
        /\ ~IsNone(ret) => FLt(ImpliedTotal(ret.best_home_odds, ret.best_away_odds), One)

\* C3 witness: best prices 2.0 and 2.0 from two bookmakers, sum exactly 1.0, None
C3_Witness ==
    /\ op = "scan_game"
    /\ Len(Get(arg, "bookmakers", <<>>)) = 2
    /\ Get(arg, "home_team", "") = HomeTeam
    /\ Get(arg, "away_team", "") = AwayTeam
    /\ Priced(arg)
    /\ Greatest(PricesFor(arg, HomeTeam)) = FInt(2)
    /\ Greatest(PricesFor(arg, AwayTeam)) = FInt(2)
    /\ BestTotal(arg) = One
    /\ min_profit_threshold = Zero
    /\ IsNone(ret)

\* a profit lies within the configured thresholds
WithinThresholds(profit) ==
    /\ FLe(min_profit_threshold, profit)
    /\ FLe(profit, max_profit_threshold)

\* the profit of an opportunity, 1/total - 1 of its best prices, lies within
\* the configured thresholds
InRange(opportunity) == WithinThresholds(ProfitFraction(opportunity))

\* C4: every opportunity in the history, returned by scan_game or returned by
\* scan_multiple_games has min_profit_threshold <= profit <= max_profit_threshold,
\* and a scanned game whose best prices give a profit outside that range yields None.
C4_ThresholdSafety ==
    /\ \A i \in 1..Len(opportunities_found) : InRange(opportunities_found[i])
    /\ (op = "scan_game" /\ ~IsNone(ret)) => InRange(ret)
    /\ op = "scan_multiple_games" => \A i \in 1..Len(ret) : InRange(ret[i])
    /\ (op = "scan_game" /\ Priced(arg) /\ FLt(BestTotal(arg), One)
          /\ ~WithinThresholds(ProfitOf(BestTotal(arg))))
       => IsNone(ret)

\* C4 witness: with an opportunity already in the history, a game whose profit
\* exceeds max_profit_threshold is scanned and yields None
C4_Witness ==
    /\ op = "scan_game"
    /\ Len(opportunities_found) = 1
    /\ Priced(arg)
    /\ FLt(BestTotal(arg), One)
    /\ FGt(ProfitOf(BestTotal(arg)), max_profit_threshold)
    /\ IsNone(ret)

\* a scan whose computed profit is one of the two thresholds, and not beyond
\* the other, returned an opportunity
BoundaryAccepted(profit) ==
    /\ (profit = min_profit_threshold /\ FLe(profit, max_profit_threshold))
          => ~IsNone(ret)
    /\ (profit = max_profit_threshold /\ FGe(profit, min_profit_threshold))
          => ~IsNone(ret)

\* C5: a game whose computed profit equals min_profit_threshold is accepted, and a
\* game whose computed profit equals max_profit_threshold is accepted (min <= max
\* in every configuration).
C5_InclusiveBoundaries ==
    (op = "scan_game" /\ Len(Get(arg, "bookmakers", <<>>)) >= 2 /\ Priced(arg)
       /\ FLt(BestTotal(arg), One)) =>
        BoundaryAccepted(ProfitOf(BestTotal(arg)))

\* C5 witness: best prices 2.5 and 2.5 give a computed profit of 0.25 to the last
\* bit, which is min_profit_threshold, and the opportunity is returned
C5_Witness ==
    /\ op = "scan_game"
    /\ Priced(arg)
    /\ ProfitOf(BestTotal(arg)) = min_profit_threshold
    /\ ~IsNone(ret)
    /\ ret.profit_percentage = FInt(25)

\* C6: _odds_to_probability(p) = q satisfies q * p = 1 for p >= 2.0,
\* q * (p + 100) = 100 for 0 < p < 2.0 and q * (|p| + 100) = |p| for p <= 0,
\* each to within a billionth, and q = 0 at p = 0.
C6_ThreeBranchConversion ==
    op = "_odds_to_probability" =>
        /\ FGe(arg, FInt(2)) => Within(FMul(ret, arg), One, Tiny)
        /\ (FGt(arg, Zero) /\ FLt(arg, FInt(2))) =>
              Within(FMul(ret, FAdd(arg, Hundred)), Hundred, Tiny)
        /\ FLe(arg, Zero) =>
              Within(FMul(ret, FAdd(FAbs(arg), Hundred)), FAbs(arg), Tiny)
        /\ arg = Zero => ret = Zero

\* C6 witness: the decimal price 1.5 is converted as an American price, 100/101.5
C6_Witness ==
    /\ op = "_odds_to_probability"
    /\ arg = F(3, 2)
    /\ ret = F(200, 203)

\* C7 (as claimed): _odds_to_probability(150) = 0.4 and _odds_to_probability(-150) = 0.6.
C7_AmericanOdds ==
    op = "_odds_to_probability" =>
        /\ arg = FInt(150) => ret = F(4, 10)
        /\ arg = FInt(-150) => ret = F(6, 10)

\* the game of the scenario: A quotes home 2.15 / away 1.70, B quotes home 1.70 /
\* away 2.20
ScenarioGame ==
    Game("arb_game_1", <<Quoting("DraftKings", F(215, 100), F(170, 100)),
                         Quoting("FanDuel", F(170, 100), F(220, 100))>>)

ScenarioProfit == F(873, 10000)
ScenarioStakeHome == F(5057, 10000)
ScenarioStakeAway == F(4943, 10000)

\* C8: scanning the scenario game with the default thresholds returns an opportunity
\* with best home 2.15 from A, best away 2.20 from B, profit about 0.0873 and stake
\* fractions about 0.5057 and 0.4943; with thresholds whose minimum is not above that
\* profit, it is rejected exactly when the maximum is below it.
C8_Scenario ==
    (op = "scan_game" /\ arg = ScenarioGame) =>
        /\ (min_profit_threshold = DefaultMin /\ max_profit_threshold = DefaultMax) =>
              /\ ~IsNone(ret)
              /\ ret.best_home_odds = DemoHomePrice
              /\ ret.best_home_bookmaker = "DraftKings"
              /\ ret.best_away_odds = DemoAwayPrice
              /\ ret.best_away_bookmaker = "FanDuel"
              /\ Within(FDiv(ret.profit_percentage, Hundred), ScenarioProfit,
                        TenThousandth)
              /\ Within(FDiv(ret.stake_home, Hundred), ScenarioStakeHome, TenThousandth)
              /\ Within(FDiv(ret.stake_away, Hundred), ScenarioStakeAway, TenThousandth)
        /\ FLe(min_profit_threshold, ScenarioProfit) =>
              (IsNone(ret) <=> FLt(max_profit_threshold, ScenarioProfit))

\* C8 witness: the scenario game scanned under the default thresholds
C8_Witness ==
    /\ op = "scan_game"
    /\ arg = ScenarioGame
    /\ min_profit_threshold = DefaultMin
    /\ max_profit_threshold = DefaultMax
    /\ ~IsNone(ret)

\* a list of opportunities is descending by profit
Descending(opportunities) ==
    \A i \in 1..Len(opportunities) - 1 :
        FGe(opportunities[i].profit_percentage, opportunities[i + 1].profit_percentage)

\* the returned list holds the emitted opportunities, descending by profit, those
\* of equal profit in the order in which they were emitted
SortedStably(emitted) ==
    /\ Len(ret) = Len(emitted)
    /\ Descending(ret)
    /\ \A k \in 1..Len(emitted) :
          WithProfit(ret, emitted[k].profit_percentage)
              = WithProfit(emitted, emitted[k].profit_percentage)

\* C9: scan_multiple_games returns the opportunities its games emit ordered by profit
\* descending, and those of equal profit in the order of their games in the input.
C9_StableDescendingSort ==
    op = "scan_multiple_games" => SortedStably(Emitted(Calls(arg)))

\* C9 witness: three games with profits [8.7%, 10%, 8.7%] come back as the 10% one,
\* then the first 8.7% one, then the second
C9_Witness ==
    /\ op = "scan_multiple_games"
    /\ Len(arg) = 3
    /\ arg[1].id = "game_1" /\ arg[2].id = "game_3" /\ arg[3].id = "game_2"
    /\ Len(ret) = 3
    /\ ret[1].game_id = "game_3" /\ ret[2].game_id = "game_1" /\ ret[3].game_id = "game_2"
    /\ ret[2].profit_percentage = ret[3].profit_percentage
    /\ FGt(ret[1].profit_percentage, ret[2].profit_percentage)

\* C10: every step leaves the history as it was and appends to it exactly the
\* opportunities emitted by the scans of that step, in the order the games were
\* scanned; a scan returning None and every other operation append nothing.
C10_HistoryAccounting ==
    [][opportunities_found' =
          opportunities_found
              \o Emitted(SubSeq(scanned', Len(scanned) + 1, Len(scanned')))]_vars

\* C10 witness: a scan_multiple_games call on two games has returned the opportunities
\* in sorted order while the history holds them in scan order
C10_Witness ==
    /\ op = "scan_multiple_games"
    /\ Len(arg) = 2
    /\ Len(ret) = 2
    /\ Len(opportunities_found) = 2
    /\ opportunities_found[1] = ret[2]
    /\ opportunities_found[2] = ret[1]
    /\ opportunities_found[1] # opportunities_found[2]

---------------------------------------------------------------------------
(* Stakes, errors, risk and time sensitivity *)

\* a stake lies between 0 and 100 percent and is, to within a billionth, the
\* implied probability divided by the total, in percent
StakeOf(stake, prob, total) ==
    /\ FLe(Zero, stake)
    /\ FLe(stake, Hundred)
    /\ Within(FMul(stake, total), FMul(prob, Hundred), Tiny)

\* the stakes of the opportunity returned are those of the two probabilities
StakesOf(home_prob, away_prob) ==
    /\ StakeOf(ret.stake_home, home_prob, FAdd(home_prob, away_prob))
    /\ StakeOf(ret.stake_away, away_prob, FAdd(home_prob, away_prob))

\* C11 (as claimed): the stakes of every opportunity scan_game returns each lie
\* between 0 and 100 percent, are the implied probabilities divided by their
\* total, and sum to exactly 100 percent (fractions in [0,1] summing to 1.0).
C11_ExactSum ==
    (op = "scan_game" /\ ~IsNone(ret)) =>
        /\ StakesOf(odds_to_probability(ret.best_home_odds),
                    odds_to_probability(ret.best_away_odds))
        /\ FAdd(ret.stake_home, ret.stake_away) = Hundred

\* C11 (amended): the stakes of every opportunity scan_game returns each lie
\* between 0 and 100 percent, are the implied probabilities divided by their
\* total, and sum to 100 percent to within a billionth: the two quotients are
\* each rounded to a float, and their sum can miss 100.0 by a last bit.
C11_StakeFractions ==
    (op = "scan_game" /\ ~IsNone(ret)) =>
        /\ StakesOf(odds_to_probability(ret.best_home_odds),
                    odds_to_probability(ret.best_away_odds))
        /\ Within(FAdd(ret.stake_home, ret.stake_away), Hundred, Tiny)

\* C11 witness: an opportunity with unequal stakes, neither of them 0, whose sum
\* is not the float 100.0
C11_Witness ==
    /\ op = "scan_game"
    /\ ~IsNone(ret)
    /\ FLt(Zero, ret.stake_away)
    /\ FLt(ret.stake_away, ret.stake_home)
    /\ FAdd(ret.stake_home, ret.stake_away) # Hundred

\* C12 (as claimed): calculate_optimal_stakes with a negative bankroll raises
\* instead of returning a stake structure.
C12_NegativeBankrollRejected ==
    (op = "calculate_optimal_stakes" /\ FLt(arg.total_bankroll, Zero)) =>
        "raises" \in DOMAIN ret

\* the fields of an ArbitrageOpportunity
OpportunityFields ==
    {"game_id", "sport", "home_team", "away_team", "commence_time", "best_home_odds",
     "best_home_bookmaker", "best_away_odds", "best_away_bookmaker",
     "profit_percentage", "stake_home", "stake_away", "guaranteed_return",
     "risk_level", "time_sensitivity", "detected_at"}

IsOpportunity(x) == DOMAIN x = OpportunityFields

\* C13: scan_game returns None or an Opportunity, and raises nothing, for every
\* game, the games with missing or empty parts included.
C13_ScanNeverRaises ==
    op = "scan_game" => (IsNone(ret) \/ IsOpportunity(ret))

\* C13 witness: a game without a bookmakers key was scanned and None came back
C13_Witness ==
    /\ op = "scan_game"
    /\ "bookmakers" \notin DOMAIN arg
    /\ IsNone(ret)

\* C14: get_summary_stats raises nothing; on an empty history it returns count 0,
\* average and max profit 0 and empty groupings, on a non-empty one the statistics
\* of its entries.
C14_SummaryNeverFails ==
    op = "get_summary_stats" =>
        /\ "raises" \notin DOMAIN ret
        /\ {"total_opportunities", "avg_profit", "max_profit", "by_sport", "by_risk"}
              \subseteq DOMAIN ret
        /\ ret.total_opportunities = Len(opportunities_found)
        /\ opportunities_found = <<>> =>
              /\ ret.avg_profit = Zero
              /\ ret.max_profit = Zero
              /\ DOMAIN ret.by_sport = {}
              /\ DOMAIN ret.by_risk = {}

\* C14 witness: the summary of an empty history
C14_Witness ==
    /\ op = "get_summary_stats"
    /\ opportunities_found = <<>>
    /\ ret.total_opportunities = 0

\* the dict returned holds the amounts of the reference, each rounded to 2 decimals
StakesAsReference(opportunity, B, home, away) ==
    /\ ret.stake_home = Round2(home)
    /\ ret.stake_away = Round2(away)
    /\ ret.total_staked = Round2(B)
    /\ ret.home_wins_return = Round2(FMul(home, opportunity.best_home_odds))
    /\ ret.away_wins_return = Round2(FMul(away, opportunity.best_away_odds))
    /\ ret.expected_profit = Round2(FSub(FMul(home, opportunity.best_home_odds), B))

\* C15: for a bankroll B > 0 in whole cents, calculate_optimal_stakes returns
\* stake_home = stake_home_fraction * B, stake_away = stake_away_fraction * B,
\* total_staked = B, home_wins_return = stake_home * best_home_odds,
\* away_wins_return = stake_away * best_away_odds and expected_profit =
\* home_wins_return - B, each rounded to 2 decimals.
C15_StakeReference ==
    (op = "calculate_optimal_stakes" /\ FGt(arg.total_bankroll, Zero)) =>
        StakesAsReference(arg.opportunity, arg.total_bankroll,
            FMul(FDiv(arg.opportunity.stake_home, Hundred), arg.total_bankroll),
            FMul(FDiv(arg.opportunity.stake_away, Hundred), arg.total_bankroll))

\* C15 witness: the demo's opportunity staked with a bankroll of 1000
C15_Witness ==
    /\ op = "calculate_optimal_stakes"
    /\ arg.total_bankroll = FInt(1000)
    /\ arg.opportunity.best_home_odds = DemoHomePrice
    /\ arg.opportunity.best_away_odds = DemoAwayPrice
    /\ ret.stake_home = F(50575, 100)
    /\ ret.home_wins_return = F(108736, 100)

\* the risk level of an opportunity is the one of the classification, its profit
\* as a fraction being profit
RiskAsClassified(opportunity, profit) ==
    /\ opportunity.risk_level \in {"low", "medium", "high"}
    /\ opportunity.risk_level = "high" <=> FGt(profit, FivePercent)
    /\ opportunity.risk_level = "medium" <=>
          /\ FLe(profit, FivePercent)
          /\ \/ FLt(opportunity.best_home_odds, ShortPrice)
             \/ FLt(opportunity.best_away_odds, ShortPrice)
             \/ opportunity.best_home_bookmaker
                   \notin {"DraftKings", "FanDuel", "BetMGM", "Caesars", "PointsBet"}
             \/ opportunity.best_away_bookmaker
                   \notin {"DraftKings", "FanDuel", "BetMGM", "Caesars", "PointsBet"}

\* C16: the risk level of an opportunity that scan_game returns is "high" if its
\* profit exceeds 5%; otherwise "medium" if a best price is below 1.10 or a best
\* bookmaker is not a known one; otherwise "low".
C16_RiskClassification ==
    (op = "scan_game" /\ ~IsNone(ret)) => RiskAsClassified(ret, ProfitFraction(ret))

\* C16 witness: an opportunity of more than 5% at a bookmaker that is not a known
\* one is "high"
C16_Witness ==
    /\ op = "scan_game"
    /\ ~IsNone(ret)
    /\ ret.best_home_bookmaker = "Bovada"
    /\ FGt(ProfitFraction(ret), FivePercent)
    /\ ret.risk_level = "high"

\* C17 (as claimed): every opportunity that scan_game returns with a profit above 3%
\* has time sensitivity "urgent", whatever its commence time.
C17_LargeEdgeUrgent ==
    (op = "scan_game" /\ ~IsNone(ret) /\ FGt(ProfitFraction(ret), ThreePercent)) =>
        ret.time_sensitivity = "urgent"

\* hours from the detection of an opportunity to the start of its game
HoursUntil(game_data, opportunity) == game_data.commence_time.hours - opportunity.detected_at

\* C18: an opportunity of at most 3% whose game has a parseable commence time is
\* "urgent" if the game starts in under 2 hours, "stable" if it starts more than 48
\* hours out, and "moderate" from 2 to 48 hours.
C18_TimeWindows ==
    (op = "scan_game" /\ ~IsNone(ret) /\ FLe(ProfitFraction(ret), ThreePercent)
       /\ Parseable(Get(arg, "commence_time", NoneVal))) =>
        /\ HoursUntil(arg, ret) < 2 => ret.time_sensitivity = "urgent"
        /\ HoursUntil(arg, ret) > 48 => ret.time_sensitivity = "stable"
        /\ (HoursUntil(arg, ret) >= 2 /\ HoursUntil(arg, ret) <= 48) =>
              ret.time_sensitivity = "moderate"

\* C18 witness: an opportunity of at most 3% on a game exactly two hours away
C18_Witness ==
    /\ op = "scan_game"
    /\ ~IsNone(ret)
    /\ FLe(ProfitFraction(ret), ThreePercent)
    /\ Parseable(Get(arg, "commence_time", NoneVal))
    /\ HoursUntil(arg, ret) = 2
    /\ ret.time_sensitivity = "moderate"

\* a game with its commence time set
StartingAt(game_data, commence_time) ==
    [k \in DOMAIN game_data \cup {"commence_time"} |->
        IF k = "commence_time" THEN commence_time ELSE game_data[k]]

\* C19 (as claimed): for a game whose commence time is missing or is no
\* timestamp, scan_game raises nothing, returns an opportunity exactly when it
\* returns one for the same game with a parseable commence time, and that
\* opportunity is "moderate".
C19_UnparseableTime ==
    (op = "scan_game" /\ ~Parseable(Get(arg, "commence_time", NoneVal))) =>
        /\ IsNone(ret) \/ IsOpportunity(ret)
        /\ IsNone(ret) <=>
              IsNone(scan_game(min_profit_threshold, max_profit_threshold, clock,
                               StartingAt(arg, [hours |-> 24])))
        /\ ~IsNone(ret) => ret.time_sensitivity = "moderate"

\* C20 (as claimed): the two best prices of every opportunity that scan_game returns
\* come from two different bookmakers.
C20_CrossBookmaker ==
    (op = "scan_game" /\ ~IsNone(ret)) =>
        ret.best_home_bookmaker # ret.best_away_bookmaker

---------------------------------------------------------------------------
(* Selection of the best prices *)

\* the bookmaker entry quotes the price for the team in a head-to-head market
Quotes(bookmaker, team, price) ==
    \E m \in Elements(Get(bookmaker, "markets", <<>>)) :
        /\ Get(m, "key", "") = "h2h"
        /\ \E o \in Elements(Get(m, "outcomes", <<>>)) :
              Get(o, "name", "") = team /\ Get(o, "price", Zero) = price

\* the title of the first bookmaker, in the order of the list, quoting the price
FirstQuoting(game_data, team, price) ==
    LET bookmakers == Get(game_data, "bookmakers", <<>>)
        first == CHOOSE i \in 1..Len(bookmakers) :
                    /\ Quotes(bookmakers[i], team, price)
                    /\ \A j \in 1..(i - 1) : ~Quotes(bookmakers[j], team, price)
    IN  Get(bookmakers[first], "title", "Unknown")

\* C21: in every opportunity scan_game returns, best_home_odds is the greatest price
\* quoted for home_team over the head-to-head outcomes of all bookmakers and
\* best_home_bookmaker the first bookmaker in input order quoting it; likewise,
\* independently, for the away side.
C21_BestPriceSelection ==
    (op = "scan_game" /\ ~IsNone(ret)) =>
        LET home == Get(arg, "home_team", "")
            away == Get(arg, "away_team", "")
        IN  /\ Priced(arg)
            /\ ret.best_home_odds = Greatest(PricesFor(arg, home))
            /\ ret.best_home_bookmaker = FirstQuoting(arg, home, ret.best_home_odds)
            /\ ret.best_away_odds = Greatest(PricesFor(arg, away))
            /\ ret.best_away_bookmaker = FirstQuoting(arg, away, ret.best_away_odds)

\* C21 witness: two bookmakers of different names quote the same greatest home
\* price, and the opportunity names the first
C21_Witness ==
    /\ op = "scan_game"
    /\ ~IsNone(ret)
    /\ Len(arg.bookmakers) = 2
    /\ Get(arg.bookmakers[1], "title", "Unknown") # Get(arg.bookmakers[2], "title", "Unknown")
    /\ Quotes(arg.bookmakers[1], HomeTeam, ret.best_home_odds)
    /\ Quotes(arg.bookmakers[2], HomeTeam, ret.best_home_odds)
    /\ ret.best_home_bookmaker = arg.bookmakers[1].title
    /\ ret.best_away_bookmaker = arg.bookmakers[2].title

\* C22: scan_game returns None unless each side has a head-to-head quote with a
\* price above 0, and no opportunity it returns has a best price of 0 or less.
C22_PositivePricesOnly ==
    op = "scan_game" =>
        /\ ~Priced(arg) => IsNone(ret)
        /\ ~IsNone(ret) =>
              FGt(ret.best_home_odds, Zero) /\ FGt(ret.best_away_odds, Zero)

\* C22 witness: two bookmakers quote the home side at -150 and at 0 only, the away
\* side at 3.0, and the scan returns None
C22_Witness ==
    /\ op = "scan_game"
    /\ Len(Get(arg, "bookmakers", <<>>)) = 2
    /\ \E q \in H2HQuotes(arg) : q.name = HomeTeam /\ q.price = FInt(-150)
    /\ \E q \in H2HQuotes(arg) : q.name = HomeTeam /\ q.price = Zero
    /\ PricesFor(arg, HomeTeam) = {}
    /\ PricesFor(arg, AwayTeam) = {FInt(3)}
    /\ IsNone(ret)

\* a bookmaker entry without its markets other than head-to-head, and without the
\* outcomes named after neither team
RelevantBookmaker(bookmaker, home, away) ==
    IF "markets" \notin DOMAIN bookmaker THEN bookmaker
    ELSE LET h2h == SelectSeq(bookmaker.markets, LAMBDA m : Get(m, "key", "") = "h2h")
         IN  [bookmaker EXCEPT !.markets =
                 [j \in 1..Len(h2h) |->
                     IF "outcomes" \notin DOMAIN h2h[j] THEN h2h[j]
                     ELSE [h2h[j] EXCEPT !.outcomes =
                              SelectSeq(@, LAMBDA o : Get(o, "name", "") \in {home, away})]]]

\* a game reduced to the quotes for its two teams in head-to-head markets
Relevant(game_data) ==
    IF "bookmakers" \notin DOMAIN game_data THEN game_data
    ELSE [game_data EXCEPT !.bookmakers =
             [i \in 1..Len(@) |->
                 RelevantBookmaker(@[i], Get(game_data, "home_team", ""),
                                   Get(game_data, "away_team", ""))]]

\* C26: scan_game returns for a game what it returns for the same game without its
\* markets other than 'h2h' and without the head-to-head outcomes named after
\* neither team.
C26_IrrelevantQuotes ==
    op = "scan_game" =>
        ret = scan_game(min_profit_threshold, max_profit_threshold, clock, Relevant(arg))

\* C26 witness: a game with spreads and totals markets and a Draw outcome, priced
\* above its head-to-head prices, yields an opportunity with the head-to-head prices
C26_Witness ==
    /\ op = "scan_game"
    /\ arg # Relevant(arg)
    /\ ~IsNone(ret)
    /\ ret.best_home_odds = DemoHomePrice
    /\ ret.best_away_odds = DemoAwayPrice

\* C27: every opportunity scan_game returns has a combined implied probability
\* strictly below 1, a profit_percentage that is 1/total - 1 in percent and
\* strictly positive, and a guaranteed_return equal to its profit_percentage.
C27_PositiveProfit ==
    (op = "scan_game" /\ ~IsNone(ret)) =>
        /\ FLt(ImpliedTotal(ret.best_home_odds, ret.best_away_odds), One)
        /\ ret.profit_percentage = FMul(ProfitFraction(ret), Hundred)
        /\ FGt(ret.profit_percentage, Zero)
        /\ ret.guaranteed_return = ret.profit_percentage

\* C27 witness: an opportunity returned by a detector whose minimum threshold is 0
C27_Witness ==
    /\ op = "scan_game"
    /\ min_profit_threshold = Zero
    /\ ~IsNone(ret)
    /\ FGt(ret.guaranteed_return, Zero)

---------------------------------------------------------------------------
(* The history: its summary, its frame, and the independence of scans from it *)

\* the sum of the values of a dict of counts
RECURSIVE SumOver(_, _)
SumOver(counts, keys) ==
    IF keys = {} THEN 0
    ELSE LET k == CHOOSE k \in keys : TRUE
         IN  counts[k] + SumOver(counts, keys \ {k})

\* the profits recorded in the history
Profits == {opportunities_found[i].profit_percentage : i \in 1..Len(opportunities_found)}

\* the least of a non-empty set of numbers
Least(S) == CHOOSE m \in S : \A x \in S : FLe(m, x)

\* the sum of a list of numbers, added up in order
RECURSIVE SumFrom(_, _, _)
SumFrom(xs, k, sum) ==
    IF k > Len(xs) THEN sum ELSE SumFrom(xs, k + 1, FAdd(sum, xs[k]))

\* the mean of the profits recorded in a non-empty history
MeanProfit ==
    FDiv(SumFrom([i \in 1..Len(opportunities_found) |->
                     opportunities_found[i].profit_percentage], 1, Zero),
         FInt(Len(opportunities_found)))

\* C23 (as claimed): get_summary_stats reports total_opportunities equal to the
\* number of opportunities the scans so far emitted, by_sport and by_risk counts
\* that each sum to that total, and, for a non-empty history, min_profit <=
\* avg_profit <= max_profit that are the minimum, mean and maximum of the recorded
\* profits (in percent, to 2 decimals, the mean to within a cent).
C23_SummaryConsistency ==
    op = "get_summary_stats" =>
        /\ ret.total_opportunities = Len(Emitted(scanned))
        /\ ret.total_opportunities = Len(opportunities_found)
        /\ SumOver(ret.by_sport, DOMAIN ret.by_sport) = ret.total_opportunities
        /\ SumOver(ret.by_risk, DOMAIN ret.by_risk) = ret.total_opportunities
        /\ opportunities_found # <<>> =>
              /\ ret.min_profit = Round2(Least(Profits))
              /\ Within(ret.avg_profit, MeanProfit, Cent)
              /\ ret.max_profit = Round2(Greatest(Profits))
              /\ FLe(ret.min_profit, ret.avg_profit)
              /\ FLe(ret.avg_profit, ret.max_profit)

\* C24: no step changes min_profit_threshold or max_profit_threshold, and
\* calculate_optimal_stakes and get_summary_stats leave the history as it was, the
\* opportunity passed in still an entry of it.
C24_ReadOnlyOperations ==
    [][/\ min_profit_threshold' = min_profit_threshold
       /\ max_profit_threshold' = max_profit_threshold
       /\ op' \in {"calculate_optimal_stakes", "get_summary_stats"} =>
             opportunities_found' = opportunities_found
       /\ op' = "calculate_optimal_stakes" =>
             arg'.opportunity \in Elements(opportunities_found')]_vars

\* C24 witness: calculate_optimal_stakes has run on the second entry of a history
\* of two, which is still there
C24_Witness ==
    /\ op = "calculate_optimal_stakes"
    /\ Len(opportunities_found) = 2
    /\ arg.opportunity = opportunities_found[2]
    /\ "stake_home" \in DOMAIN ret

\* an opportunity without the fields that depend on the clock (None is left as it is)
Core(x) ==
    IF IsNone(x) THEN x
    ELSE [f \in OpportunityFields \ {"detected_at", "time_sensitivity"} |-> x[f]]

\* what scan_game returns for the game on a new detector with the same thresholds,
\* at the epoch
Fresh(game_data) ==
    Core(scan_game(min_profit_threshold, max_profit_threshold, 0, game_data))

\* C25: apart from detected_at and time_sensitivity, scan_game returns for a game
\* what a new detector with the same thresholds returns for it, whatever was scanned
\* before; and a game scanned n times that yields an opportunity has n equal entries
\* in the history.
C25_HistoryIndependence ==
    /\ op = "scan_game" => Core(ret) = Fresh(arg)
    /\ \A k \in 1..Len(scanned) :
          ~IsNone(Fresh(scanned[k].game_data)) =>
              Cardinality({i \in 1..Len(opportunities_found) :
                              Core(opportunities_found[i]) = Fresh(scanned[k].game_data)})
                = Cardinality({j \in 1..Len(scanned) :
                                  Fresh(scanned[j].game_data) = Fresh(scanned[k].game_data)})

\* C25 witness: the same game scanned twice, at different times, by scan_game: two
\* entries in the history, equal but for the clock
C25_Witness ==
    /\ op = "scan_game"
    /\ Len(scanned) = 2
    /\ scanned[1].game_data = scanned[2].game_data
    /\ scanned[1].at # scanned[2].at
    /\ Len(opportunities_found) = 2
    /\ Core(opportunities_found[1]) = Core(opportunities_found[2])
    /\ opportunities_found[1].time_sensitivity # opportunities_found[2].time_sensitivity

\* C28 (as claimed): get_summary_stats returns the same fields, min_profit among
\* them, whether the history is empty or not.
C28_SameFields ==
    op = "get_summary_stats" =>
        DOMAIN ret = {"total_opportunities", "avg_profit", "max_profit", "min_profit",
                      "by_sport", "by_risk"}

---------------------------------------------------------------------------
(* The cache of the odds collector *)

\* C29 (as claimed): get_odds returns cached data only while less than
\* cache_duration seconds have passed between the storing of the data and the
\* call; after 300 seconds or more, a day or more included, it fetches again.
C29_CacheFreshness ==
    (op = "get_odds" /\ served.from = "cache") =>
        served.at - served.cached_time < cache_duration

\* the mock data get_odds can return in the model
MockData ==
    {get_mock_odds(sport, t) :
        sport \in {request.sport : request \in Requests}
                    \cup {default_sports[k] : k \in DOMAIN default_sports},
        t \in Instants}

\* C30 (as claimed): a list of games that get_odds returns from its cache was
\* fetched with the sport, regions, markets and odds_format of the present
\* request, and no mock data is ever in the cache.
C30_CacheMatchesRequest ==
    /\ (op = "get_odds" /\ served.from = "cache" /\ IsList(ret)) =>
          \A k \in DOMAIN ret.list :
              /\ ret.list[k].sport_key = arg.sport
              /\ ret.list[k].regions = arg.regions
              /\ ret.list[k].markets = arg.markets
              /\ ret.list[k].oddsFormat = arg.odds_format
    /\ \A k \in DOMAIN cache : cache[k].cached_data \notin MockData

=============================================================================
